---- MODULE Spec2Model ----
(***************************************************************************)
(* Seat allocation engine of Seat-Allocation (SeatAssign).                 *)
(*                                                                         *)
(* The module models intelligentSeating (src/ai/flows/intelligent-seating)  *)
(* as a state machine: one step for the set-up of a call, one per room     *)
(* entered, one per desk visited, one per column left, one for the final   *)
(* collection of unassigned students.  A finished call may be followed by  *)
(* a second call on the same students and a reordered classroom list, as   *)
(* the page does whenever its inputs change, or by the report of the       *)
(* stored allocation.                                                      *)
(*                                                                         *)
(* Further specifications share the variables: GeometrySpec (the layout of *)
(* one room, allocator and report), ScenarioSpec (two rooms, ten           *)
(* students), ListSpec (generatePrintData and validateSeatingArrangement   *)
(* on any list of assignments), AlgoSpec (algorithmicSeating under every   *)
(* outcome of its shuffles), FrameSpec (Spec and ListSpec side by side),  *)
(* StickySpec (three papers, two of them with two students), RosterSpec    *)
(* (the handlers of the student manager from the empty list) and PageSpec  *)
(* (the page: its managers, its debounced runAllocation, the calls it      *)
(* awaits from the server and its snapshots).                              *)
(*                                                                         *)
(* Representation.  A roll number "CT-3-10" is the sequence of its         *)
(* '-'-separated parts, each part a sequence of one-character strings:     *)
(* << <<"C","T">>, <<"3">>, <<"1","0">> >>.  A semesterSection "3-A" is    *)
(* represented the same way.  A roomName is its rank under localeCompare.  *)
(* An absent desksPerColumn is the empty sequence (the code treats both    *)
(* alike: an empty array never has the length of the column count).        *)
(***************************************************************************)
EXTENDS Integers, Sequences, FiniteSets, TLC

\* ------------------------------------------------------------------ bounds
MaxStudents == 4
MaxRooms == 2
MaxCapacity == 50
MaxListed == 3
MaxShuffled == 3
MaxChanges == 3

\* Largest column count the classroom schema admits.
MaxColumns == 8

\* ------------------------------------------------------------ value spaces
Null == "null"

Range(s) == {s[i] : i \in 1..Len(s)}

\* Students the inputs are drawn from: three papers, one of them taken in
\* two semesters, ordinals that are numeric, partly numeric and not numeric.
StudentPool ==
  { [rollNumber |-> << <<"C">>, <<"3">>, <<"1", "0">> >>, paper |-> "M",
     branch |-> "C", semesterSection |-> << <<"3">>, <<"A">> >>],
    [rollNumber |-> << <<"C">>, <<"3">>, <<"x">> >>, paper |-> "M",
     branch |-> "C", semesterSection |-> << <<"3">>, <<"B">> >>],
    [rollNumber |-> << <<"A">>, <<"5">>, <<"2", "x">> >>, paper |-> "M",
     branch |-> "A", semesterSection |-> << <<"5">>, <<"B">> >>],
    [rollNumber |-> << <<"C">>, <<"3">>, <<"1">> >>, paper |-> "P",
     branch |-> "C", semesterSection |-> << <<"3">>, <<"A">> >>],
    [rollNumber |-> << <<"A">>, <<"5">>, <<"7">> >>, paper |-> "Q",
     branch |-> "A", semesterSection |-> << <<"5">>, <<"B">> >>] }

\* Classrooms the inputs are drawn from (pairwise distinct roomName): a
\* 5-column and a 4-column room, a desksPerColumn of the wrong length, one
\* that offers fewer seats than totalCapacity and one that offers more.
ClassroomPool ==
  { [roomName |-> 1, totalCapacity |-> 3, numberOfColumns |-> 5,
     desksPerColumn |-> << >>],
    [roomName |-> 2, totalCapacity |-> 4, numberOfColumns |-> 4,
     desksPerColumn |-> <<1, 1>>],
    [roomName |-> 3, totalCapacity |-> 4, numberOfColumns |-> 1,
     desksPerColumn |-> <<1>>],
    [roomName |-> 4, totalCapacity |-> 1, numberOfColumns |-> 1,
     desksPerColumn |-> <<2>>] }

\* Sequences without repetition over a set, of length at most n.
RECURSIVE DistinctSeqs(_, _)
DistinctSeqs(S, n) ==
  IF n = 0 THEN { << >> }
  ELSE LET shorter == DistinctSeqs(S, n - 1)
       IN  shorter \cup
           UNION { { Append(q, x) : x \in S \ Range(q) } :
                   q \in { r \in shorter : Len(r) = n - 1 } }

\* All reorderings of a sequence.
Reorderings(s) ==
  LET n == Len(s)
      bij == { f \in [1..n -> 1..n] : \A i, j \in 1..n : i # j => f[i] # f[j] }
  IN  { [i \in 1..n |-> s[f[i]]] : f \in bij }

\* Array.prototype.sort under a comparator that is a strict weak order,
\* given as the table less[i][j] = (compare(s[i], s[j]) < 0): the sorted
\* array, elements that compare equal keeping their input order (stable).
StableSort(s, less) ==
  LET n == Len(s)
      rank(i) == 1 + Cardinality({ j \in 1..n :
                     \/ less[j][i]
                     \/ (~less[i][j] /\ ~less[j][i] /\ j < i) })
  IN  [k \in 1..n |-> s[CHOOSE i \in 1..n : rank(i) = k]]

\* -------------------------------------------------------- roll-key parser
Digits == {"0", "1", "2", "3", "4", "5", "6", "7", "8", "9"}

DigitValue(ch) ==
  CASE ch = "0" -> 0 [] ch = "1" -> 1 [] ch = "2" -> 2 [] ch = "3" -> 3
    [] ch = "4" -> 4 [] ch = "5" -> 5 [] ch = "6" -> 6 [] ch = "7" -> 7
    [] ch = "8" -> 8 [] ch = "9" -> 9

\* Value of the longest prefix of digits of a text, read left to right.
RECURSIVE DigitPrefix(_, _, _)
DigitPrefix(text, acc, seen) ==
  IF text # << >> /\ Head(text) \in Digits
  THEN DigitPrefix(Tail(text), 10 * acc + DigitValue(Head(text)), TRUE)
  ELSE [finite |-> seen, value |-> acc]

\* parseInt(text, 10): leading blanks skipped, an optional '+', then the
\* leading digits; NaN (finite = FALSE) when there is no leading digit.
RECURSIVE parseInt(_)
parseInt(text) ==
  IF text # << >> /\ Head(text) = " " THEN parseInt(Tail(text))
  ELSE IF text # << >> /\ Head(text) = "+" THEN DigitPrefix(Tail(text), 0, FALSE)
  ELSE DigitPrefix(text, 0, FALSE)

extractRollNumberNumeric(rollNumber) ==
  LET n == parseInt(rollNumber[Len(rollNumber)])
  IN  IF n.finite THEN n.value ELSE 0

\* Comparator of the per-paper queue sort.
RollLessDescending(a, b) ==
  extractRollNumberNumeric(a.rollNumber) > extractRollNumberNumeric(b.rollNumber)

RollLess(a, b) ==
  extractRollNumberNumeric(a.rollNumber) < extractRollNumberNumeric(b.rollNumber)

\* ----------------------------------------------------- per-paper queues
RECURSIVE BuildPaperOrder(_, _)
BuildPaperOrder(st, acc) ==
  IF st = << >> THEN acc
  ELSE BuildPaperOrder(Tail(st),
         IF Head(st).paper \in Range(acc) THEN acc
         ELSE Append(acc, Head(st).paper))

PaperQueue(st, p) == SelectSeq(st, LAMBDA s : s.paper = p)

SortQueue(q) ==
  StableSort(q, [i \in 1..Len(q) |-> [j \in 1..Len(q) |-> RollLess(q[i], q[j])]])

BuildByPaper(st) ==
  [p \in Range(BuildPaperOrder(st, << >>)) |-> SortQueue(PaperQueue(st, p))]

\* q.shift(): the queue without its first element.
ShiftKeepsHead(q) == q

Shift(q) == Tail(q)

hasRemaining(bp, po) == \E i \in 1..Len(po) : Len(bp[po[i]]) > 0

\* ------------------------------------------------------ classroom order
prefFiveColumnsFirst(c) == IF c = 5 THEN 0 ELSE IF c = 4 THEN 1 ELSE 2

pref(c) == IF c = 4 THEN 0 ELSE IF c = 5 THEN 1 ELSE 2

localeCompare(a, b) == a - b

ClassroomLessNoTieBreak(a, b) ==
  pref(a.numberOfColumns) < pref(b.numberOfColumns)

ClassroomLess(a, b) ==
  \/ pref(a.numberOfColumns) < pref(b.numberOfColumns)
  \/ /\ pref(a.numberOfColumns) = pref(b.numberOfColumns)
     /\ localeCompare(a.roomName, b.roomName) < 0

SortClassrooms(cs) ==
  StableSort(cs, [i \in 1..Len(cs) |->
                   [j \in 1..Len(cs) |-> ClassroomLess(cs[i], cs[j])]])

\* ------------------------------------------------------- desk geometry
Max(a, b) == IF a > b THEN a ELSE b

Columns(room) == Max(1, room.numberOfColumns)

PerColAlwaysComputed(room) ==
  LET columns == Columns(room)
      benches == (room.totalCapacity + 1) \div 2
      base == benches \div columns
      rem == benches % columns
  IN  [i \in 1..columns |-> base + (IF i - 1 < rem THEN 1 ELSE 0)]

PerCol(room) ==
  LET columns == Columns(room)
  IN  IF Len(room.desksPerColumn) = columns
      THEN room.desksPerColumn
      ELSE LET benches == (room.totalCapacity + 1) \div 2
               base == benches \div columns
               rem == benches % columns
           IN  [i \in 1..columns |-> base + (IF i - 1 < rem THEN 1 ELSE 0)]

\* ------------------------------------------------------ paper rotation
RECURSIVE NextPaperScan(_, _, _, _, _)
NextPaperScan(idx, checked, exclude, bp, po) ==
  IF checked >= Len(po) THEN [paper |-> Null, idx |-> idx]
  ELSE LET p == po[idx + 1]
           nidx == (idx + 1) % Len(po)
       IN  IF p # exclude /\ Len(bp[p]) > 0
           THEN [paper |-> p, idx |-> nidx]
           ELSE NextPaperScan(nidx, checked + 1, exclude, bp, po)

nextPaperIgnoringExclude(idx, exclude, bp, po) ==
  IF Len(po) = 0 THEN [paper |-> Null, idx |-> idx]
  ELSE NextPaperScan(idx, 0, Null, bp, po)

\* nextPaper(exclude); a call without argument passes Null.
nextPaper(idx, exclude, bp, po) ==
  IF Len(po) = 0 THEN [paper |-> Null, idx |-> idx]
  ELSE NextPaperScan(idx, 0, exclude, bp, po)

QueueEmpty(bp, p) == p = Null \/ Len(bp[p]) = 0

ensurePairAlwaysNew(q1, q2, idx, bp, po) ==
  LET r1 == nextPaper(idx, Null, bp, po)
      r2 == nextPaper(r1.idx, r1.paper, bp, po)
  IN  [p1 |-> r1.paper, p2 |-> r2.paper, idx |-> r2.idx]

\* ensurePair(): the locked pair and the rotation pointer after the call.
ensurePair(q1, q2, idx, bp, po) ==
  LET r1 == IF QueueEmpty(bp, q1) THEN nextPaper(idx, Null, bp, po)
            ELSE [paper |-> q1, idx |-> idx]
      r2 == IF QueueEmpty(bp, q2) \/ q2 = r1.paper
            THEN nextPaper(r1.idx, r1.paper, bp, po)
            ELSE [paper |-> q2, idx |-> r1.idx]
  IN  [p1 |-> r1.paper, p2 |-> r2.paper, idx |-> r2.idx]

\* serial++
SerialStuck(n) == n

NextSerial(n) == n + 1

\* Guard of the Side 2 placement.
CanSeatSide2IgnoringCapacity(n, capacity, q2) == q2 # Null

CanSeatSide2OffByOne(n, capacity, q2) == n < capacity /\ q2 # Null

CanSeatSide2(n, capacity, q2) == n <= capacity /\ q2 # Null

SeatSidesSwapped(s, room, desk, side, n) ==
  [rollNumber |-> s.rollNumber, paper |-> s.paper, roomName |-> room.roomName,
   deskNumber |-> desk, side |-> IF side = "Side 1" THEN "Side 2" ELSE "Side 1",
   serialNumber |-> n]

Seat(s, room, desk, side, n) ==
  [rollNumber |-> s.rollNumber, paper |-> s.paper, roomName |-> room.roomName,
   deskNumber |-> desk, side |-> side, serialNumber |-> n]

\* ------------------------------------------------------------- state
VARIABLES
  classrooms,          \* input.classrooms of the current call
  students,            \* input.students of the current call
  pc,                  \* position: "call", "rooms", "desks", "gather", "done"
  paperOrder,          \* papers in order of first appearance
  byPaper,             \* paper -> queue of waiting students
  paperIdx,            \* round-robin pointer (0-based)
  sorted,              \* classrooms in filling order
  roomIdx,             \* position of the room loop in sorted (1-based)
  perCol,              \* benches per column of the current room
  serial,              \* next serial number of the current room
  p1, p2,              \* locked paper pair of the current room
  col, row, deskBase,  \* position of the column / row loops
  assignments,         \* assignments pushed so far
  unassignedStudents,  \* result list, set by the final collection
  lastDesk,            \* history: what the last desk visit saw and did
  calls,               \* number of calls started on these students
  prevCall,            \* input classrooms and result of the previous call
  report,              \* result of generatePrintData
  validationResult,    \* result of validateSeatingArrangement
  seatTracker,         \* algorithmicSeating: all seats, free or occupied
  studentsToAssign,    \* algorithmicSeating: shuffled students not yet handled
  pageClassrooms,      \* Home: the classrooms state
  pageStudents,        \* Home: the students state
  allocation,          \* Home: the allocation state
  isLoading,           \* Home: the isLoading state
  disableAutoAllocate, \* Home: the disableAutoAllocate state
  handler,             \* pending debounce timer: << >> or << its closure >>
  reenable,            \* pending 100 ms timers of importSnapshot
  inflight,            \* intelligentSeating calls awaited by runAllocation
  file,                \* the snapshot file last saved: << >> or << document >>
  lastToast,           \* title of the last notification raised
  page                 \* history: what the page has been through

vars == << classrooms, students, pc, paperOrder, byPaper, paperIdx, sorted,
           roomIdx, perCol, serial, p1, p2, col, row, deskBase, assignments,
           unassignedStudents, lastDesk, calls, prevCall, report,
           validationResult, seatTracker, studentsToAssign, pageClassrooms,
           pageStudents, allocation, isLoading, disableAutoAllocate, handler,
           reenable, inflight, file, lastToast, page >>

roomLocals == << perCol, serial, p1, p2, col, row, deskBase >>

pageVars == << pageClassrooms, pageStudents, allocation, isLoading,
              disableAutoAllocate, handler, reenable, inflight, file,
              lastToast, page >>

toolVars == << report, validationResult, seatTracker, studentsToAssign,
               pageVars >>

NoValidation == [isValid |-> TRUE, violations |-> << >>, totalStudents |-> 0,
                 sameDeskViolations |-> 0, adjacentSamePaperCount |-> 0,
                 paperDistribution |-> << >>]

NoDesk == [visited |-> FALSE, papersWaiting |-> 0, classesWaiting |-> 0,
           seatsLeft |-> 0, filled |-> 0, room |-> 0,
           pair |-> << Null, Null >>, prevPair |-> << Null, Null >>,
           prevBothWaiting |-> FALSE]

\* The page before anything happened on it (page.tsx lines 59-67), no timer
\* pending and no call awaited.
NoAllocation == [assignments |-> << >>, unassignedStudents |-> << >>]

NoHistory == [changes |-> 0, loads |-> 0, runs |-> 0, current |-> 0,
              failures |-> 0, snapshot |-> << >>, expected |-> << >>,
              op |-> Null, rolls |-> {}]

PageAtRest ==
  /\ pageClassrooms = << >>
  /\ pageStudents = << >>
  /\ allocation = NoAllocation
  /\ isLoading = FALSE
  /\ disableAutoAllocate = FALSE
  /\ handler = << >>
  /\ reenable = 0
  /\ inflight = {}
  /\ file = << >>
  /\ lastToast = Null
  /\ page = NoHistory

NoCall == [classrooms |-> << >>, assignments |-> << >>,
           unassignedStudents |-> << >>]

Init ==
  /\ classrooms \in DistinctSeqs(ClassroomPool, MaxRooms)
  /\ students \in DistinctSeqs(StudentPool, MaxStudents)
  /\ pc = "call"
  /\ paperOrder = << >>
  /\ byPaper = << >>
  /\ paperIdx = 0
  /\ sorted = << >>
  /\ roomIdx = 1
  /\ perCol = << >>
  /\ serial = 1
  /\ p1 = Null
  /\ p2 = Null
  /\ col = 0
  /\ row = 1
  /\ deskBase = 0
  /\ assignments = << >>
  /\ unassignedStudents = << >>
  /\ lastDesk = NoDesk
  /\ calls = 1
  /\ prevCall = NoCall
  /\ report = << >>
  /\ validationResult = NoValidation
  /\ seatTracker = << >>
  /\ studentsToAssign = << >>
  /\ PageAtRest

\* ConflictClass of the specification: paper and semester number.
ConflictClass(s) == << s.paper, s.semesterSection[1] >>

Waiting(bp, po) == UNION { Range(bp[po[i]]) : i \in 1..Len(po) }

\* Start of a call with the rotation pointer at a given value.
BeginWith(idx) ==
  /\ pc = "call"
  /\ assignments' = << >>
  /\ paperOrder' = BuildPaperOrder(students, << >>)
  /\ byPaper' = BuildByPaper(students)
  /\ paperIdx' = idx
  /\ sorted' = SortClassrooms(classrooms)
  /\ roomIdx' = 1
  /\ unassignedStudents' = << >>
  /\ lastDesk' = NoDesk
  /\ pc' = "rooms"
  /\ UNCHANGED << classrooms, students, roomLocals, calls, prevCall >>
  /\ UNCHANGED toolVars

BeginKeepingPointer == BeginWith(paperIdx)

\* Lines 67-131: queues, pointer, sorted classrooms.
Begin == BeginWith(0)

\* Head of the room loop with the rotation pointer at a given value.
EnterRoomAt(idx) ==
  /\ pc = "rooms"
  /\ roomIdx <= Len(sorted)
  /\ hasRemaining(byPaper, paperOrder)
  /\ perCol' = PerCol(sorted[roomIdx])
  /\ serial' = 1
  /\ p1' = Null
  /\ p2' = Null
  /\ deskBase' = 0
  /\ col' = 0
  /\ row' = 1
  /\ paperIdx' = idx
  /\ pc' = "desks"
  /\ UNCHANGED << classrooms, students, paperOrder, byPaper, sorted,
                  roomIdx, assignments, unassignedStudents, lastDesk, calls,
                  prevCall >>
  /\ UNCHANGED toolVars

EnterRoomResettingPointer == EnterRoomAt(0)

\* Head of the room loop: next room, its geometry and its locals; the
\* pointer and the queues are those the room before left.
EnterRoom == EnterRoomAt(paperIdx)

\* The room loop ends: no room left, or no student left (break).
LeaveRooms ==
  /\ pc = "rooms"
  /\ (roomIdx > Len(sorted) \/ ~hasRemaining(byPaper, paperOrder))
  /\ pc' = "gather"
  /\ UNCHANGED << classrooms, students, paperOrder, byPaper, paperIdx, sorted,
                  roomIdx, roomLocals, assignments, unassignedStudents,
                  lastDesk, calls, prevCall >>
  /\ UNCHANGED toolVars

DeskInReach ==
  /\ pc = "desks"
  /\ col < Columns(sorted[roomIdx])
  /\ row <= perCol[col + 1]

RowGuardOffByOne ==
  /\ hasRemaining(byPaper, paperOrder)
  /\ serial < sorted[roomIdx].totalCapacity

RowGuard ==
  /\ hasRemaining(byPaper, paperOrder)
  /\ serial <= sorted[roomIdx].totalCapacity

\* One pass of the row loop body (lines 176-206).
FillDesk ==
  /\ DeskInReach
  /\ RowGuard
  /\ LET room == sorted[roomIdx]
         desk == deskBase + row
         pair == ensurePair(p1, p2, paperIdx, byPaper, paperOrder)
     IN  IF pair.p1 = Null
         THEN \* break: the column is left
              /\ deskBase' = deskBase + perCol[col + 1]
              /\ col' = col + 1
              /\ row' = 1
              /\ p1' = pair.p1
              /\ p2' = pair.p2
              /\ paperIdx' = pair.idx
              /\ UNCHANGED << byPaper, assignments, serial, lastDesk >>
         ELSE LET q1 == byPaper[pair.p1]
                  got1 == Len(q1) > 0
                  bp1 == IF got1 THEN [byPaper EXCEPT ![pair.p1] = Shift(q1)]
                         ELSE byPaper
                  as1 == IF got1
                         THEN Append(assignments,
                                Seat(Head(q1), room, desk, "Side 1", serial))
                         ELSE assignments
                  n1 == IF got1 THEN NextSerial(serial) ELSE serial
                  try2 == CanSeatSide2(n1, room.totalCapacity, pair.p2)
                  q2 == IF try2 THEN bp1[pair.p2] ELSE << >>
                  got2 == try2 /\ Len(q2) > 0
                  bp2 == IF got2 THEN [bp1 EXCEPT ![pair.p2] = Shift(q2)]
                         ELSE bp1
                  as2 == IF got2
                         THEN Append(as1, Seat(Head(q2), room, desk, "Side 2", n1))
                         ELSE as1
                  n2 == IF got2 THEN NextSerial(n1) ELSE n1
                  before == Waiting(byPaper, paperOrder)
              IN  /\ byPaper' = bp2
                  /\ assignments' = as2
                  /\ serial' = n2
                  /\ p1' = IF Len(bp2[pair.p1]) = 0 THEN Null ELSE pair.p1
                  /\ p2' = IF QueueEmpty(bp2, pair.p2) THEN Null ELSE pair.p2
                  /\ paperIdx' = pair.idx
                  /\ row' = row + 1
                  /\ lastDesk' =
                       [visited |-> TRUE,
                        papersWaiting |-> Cardinality({ s.paper : s \in before }),
                        classesWaiting |->
                          Cardinality({ ConflictClass(s) : s \in before }),
                        seatsLeft |-> room.totalCapacity - serial + 1,
                        filled |-> Len(as2) - Len(assignments),
                        room |-> roomIdx,
                        pair |-> << pair.p1, pair.p2 >>,
                        prevPair |-> IF lastDesk.visited /\ lastDesk.room = roomIdx
                                     THEN lastDesk.pair ELSE << Null, Null >>,
                        prevBothWaiting |->
                          /\ lastDesk.visited
                          /\ lastDesk.room = roomIdx
                          /\ lastDesk.pair[1] # Null
                          /\ lastDesk.pair[2] # Null
                          /\ Len(byPaper[lastDesk.pair[1]]) > 0
                          /\ Len(byPaper[lastDesk.pair[2]]) > 0]
                  /\ UNCHANGED << col, deskBase >>
  /\ UNCHANGED << classrooms, students, pc, paperOrder, sorted, roomIdx,
                  perCol, unassignedStudents, calls, prevCall >>
  /\ UNCHANGED toolVars

\* The row loop of a column ends (rows exhausted, or break at line 176).
EndColumn ==
  /\ pc = "desks"
  /\ col < Columns(sorted[roomIdx])
  /\ (row > perCol[col + 1] \/ ~RowGuard)
  /\ deskBase' = deskBase + perCol[col + 1]
  /\ col' = col + 1
  /\ row' = 1
  /\ UNCHANGED << classrooms, students, pc, paperOrder, byPaper, paperIdx,
                  sorted, roomIdx, perCol, serial, p1, p2, assignments,
                  unassignedStudents, lastDesk, calls, prevCall >>
  /\ UNCHANGED toolVars

\* The column loop ends: on to the next room.
EndRoom ==
  /\ pc = "desks"
  /\ col >= Columns(sorted[roomIdx])
  /\ roomIdx' = roomIdx + 1
  /\ pc' = "rooms"
  /\ UNCHANGED << classrooms, students, paperOrder, byPaper, paperIdx, sorted,
                  roomLocals, assignments, unassignedStudents, lastDesk, calls,
                  prevCall >>
  /\ UNCHANGED toolVars

RECURSIVE Concat(_, _, _)
Concat(bp, po, i) ==
  IF i > Len(po) THEN << >> ELSE bp[po[i]] \o Concat(bp, po, i + 1)

\* Lines 212-218: whatever is still queued is unassigned.
Gather ==
  /\ pc = "gather"
  /\ unassignedStudents' = Concat(byPaper, paperOrder, 1)
  /\ pc' = "done"
  /\ UNCHANGED << classrooms, students, paperOrder, byPaper, paperIdx, sorted,
                  roomIdx, roomLocals, assignments, lastDesk, calls, prevCall >>
  /\ UNCHANGED toolVars

Output == [classrooms |-> classrooms, assignments |-> assignments,
           unassignedStudents |-> unassignedStudents]

\* The page calls the allocator again: same students, the classroom list in
\* any order.  Nothing of the finished call is handed to the new one.
CallAgain ==
  /\ pc = "done"
  /\ calls = 1
  /\ \E cs \in Reorderings(classrooms) : classrooms' = cs
  /\ prevCall' = Output
  /\ calls' = 2
  /\ pc' = "call"
  /\ UNCHANGED << students, paperOrder, byPaper, paperIdx, sorted, roomIdx,
                  roomLocals, assignments, unassignedStudents, lastDesk >>
  /\ UNCHANGED toolVars

\* ====================================================== report generator
\* generatePrintData of src/lib/print-utils.ts.  An assignment handed to it
\* carries the student's branch and semesterSection next to its seat.  A
\* grid cell is << >> when empty (null) and << a >> when it shows a.

\* extractParts: prefix and number of a roll number.
extractParts(roll) ==
  IF Len(roll) < 2 THEN [prefix |-> roll, num |-> 0]
  ELSE LET num == parseInt(roll[Len(roll)])
       IN  IF num.finite
           THEN [prefix |-> SubSeq(roll, 1, Len(roll) - 1), num |-> num.value]
           ELSE [prefix |-> roll, num |-> 0]

\* Characters of the summary labels, in the order localeCompare gives them:
\* blank, punctuation, digits, letters.
CollationOrder ==
  << " ", "-", "(", ")", "0", "1", "2", "3", "4", "5", "6", "7", "8", "9",
     "A", "B", "C", "M", "P", "Q" >>

CollationRank(ch) ==
  CHOOSE i \in 1..Len(CollationOrder) : CollationOrder[i] = ch

\* a.localeCompare(b) on labels: the first differing character decides, a
\* proper prefix comes first.
RECURSIVE labelCompare(_, _)
labelCompare(a, b) ==
  IF a = << >> /\ b = << >> THEN 0
  ELSE IF a = << >> THEN -1
  ELSE IF b = << >> THEN 1
  ELSE IF Head(a) = Head(b) THEN labelCompare(Tail(a), Tail(b))
  ELSE CollationRank(Head(a)) - CollationRank(Head(b))

\* The text of a '-'-separated value: its parts joined by '-'.
RECURSIVE JoinParts(_)
JoinParts(parts) ==
  IF parts = << >> THEN << >>
  ELSE IF Len(parts) = 1 THEN Head(parts)
  ELSE Head(parts) \o << "-" >> \o JoinParts(Tail(parts))

\* `${paper} (${branch} - ${semesterSection})`
Label(a) ==
  << a.paper, " ", "(", a.branch, " ", "-", " " >>
    \o JoinParts(a.semesterSection) \o << ")" >>

SortBySerial(list) ==
  StableSort(list, [i \in 1..Len(list) |->
                     [j \in 1..Len(list) |->
                       list[i].serialNumber < list[j].serialNumber]])

studentsInClassroom(classroom, allAssignments) ==
  SortBySerial(SelectSeq(allAssignments,
                         LAMBDA a : a.roomName = classroom.roomName))

\* Key of the summary groups.
GroupKey(a) == << a.paper, a.branch, a.semesterSection >>

\* Keys in the order the reduce creates them.
RECURSIVE GroupKeys(_, _)
GroupKeys(list, acc) ==
  IF list = << >> THEN acc
  ELSE GroupKeys(Tail(list),
         IF GroupKey(Head(list)) \in Range(acc) THEN acc
         ELSE Append(acc, GroupKey(Head(list))))

Group(list, key) == SelectSeq(list, LAMBDA a : GroupKey(a) = key)

SortRollNumbers(rolls) ==
  StableSort(rolls, [i \in 1..Len(rolls) |->
                      [j \in 1..Len(rolls) |->
                        extractParts(rolls[i]).num < extractParts(rolls[j]).num]])

SummaryRow(group) ==
  LET rollNumbers == SortRollNumbers([i \in 1..Len(group) |-> group[i].rollNumber])
  IN  [paper |-> Label(group[1]),
       from |-> rollNumbers[1],
       to |-> rollNumbers[Len(rollNumbers)],
       total |-> Len(group)]

SortSummaryUnsorted(rows) == rows

SortSummary(rows) ==
  StableSort(rows, [i \in 1..Len(rows) |->
                     [j \in 1..Len(rows) |->
                       labelCompare(rows[i].paper, rows[j].paper) < 0]])

Summary(list) ==
  LET keys == GroupKeys(list, << >>)
  IN  SortSummary([k \in 1..Len(keys) |-> SummaryRow(Group(list, keys[k]))])

benchesPerColumnFloor(classroom) ==
  LET columns == Max(1, classroom.numberOfColumns)
  IN  IF Len(classroom.desksPerColumn) = columns
      THEN classroom.desksPerColumn
      ELSE LET benches == classroom.totalCapacity \div 2
               basePerCol == benches \div columns
               remainder == benches % columns
           IN  [i \in 1..columns |->
                 basePerCol + (IF i - 1 < remainder THEN 1 ELSE 0)]

\* Lines 74-85: the geometry the report is drawn on.
benchesPerColumn(classroom) ==
  LET columns == Max(1, classroom.numberOfColumns)
  IN  IF Len(classroom.desksPerColumn) = columns
      THEN classroom.desksPerColumn
      ELSE LET benches == (classroom.totalCapacity + 1) \div 2
               basePerCol == benches \div columns
               remainder == benches % columns
           IN  [i \in 1..columns |->
                 basePerCol + (IF i - 1 < remainder THEN 1 ELSE 0)]

\* deskMap.get(dn): the last student in serial order on that side of dn.
DeskEntry(list, dn, onSide1) ==
  LET at == { i \in 1..Len(list) :
                list[i].deskNumber = dn /\ (list[i].side = "Side 1") = onSide1 }
  IN  IF at = {} THEN << >>
      ELSE << list[CHOOSE i \in at : \A j \in at : j <= i] >>

\* Sum of the first n entries of a list of numbers.
RECURSIVE SumFirst(_, _)
SumFirst(q, n) == IF n <= 0 THEN 0 ELSE SumFirst(q, n - 1) + q[n]

deskOffsetPerColumn(bpc, c) == 0

\* deskOffset when column c is drawn: the benches of the columns before it.
deskOffset(bpc, c) == SumFirst(bpc, c - 1)

RECURSIVE maxRows(_, _)
maxRows(bpc, c) ==
  IF c = 0 THEN 0 ELSE Max(maxRows(bpc, c - 1), bpc[c])

SubColumnUnpadded(list, bpc, c, onSide1) ==
  [r \in 1..bpc[c] |-> DeskEntry(list, deskOffset(bpc, c) + r, onSide1)]

\* left (onSide1) or right sub-column of column c, padded to the height.
SubColumn(list, bpc, c, onSide1) ==
  [r \in 1..maxRows(bpc, Len(bpc)) |->
     IF r <= bpc[c] THEN DeskEntry(list, deskOffset(bpc, c) + r, onSide1)
     ELSE << >>]

finalColumns(list, bpc) ==
  [k \in 1..(2 * Len(bpc)) |-> SubColumn(list, bpc, (k + 1) \div 2, k % 2 = 1)]

\* The report of one classroom that holds students.
PrintReportData(classroom, list) ==
  [classroom |-> classroom,
   summary |-> Summary(list),
   columns |-> finalColumns(list, benchesPerColumn(classroom)),
   benchesPerColumn |-> benchesPerColumn(classroom),
   maxRowsInColumn |-> maxRows(benchesPerColumn(classroom),
                               Len(benchesPerColumn(classroom)))]

ListSortedInPlace(allAssignments) == SortBySerial(allAssignments)

\* The caller's list after generatePrintData: filter copies the list and
\* the sort by serial number works on the copy (lines 40-42).
ListAfterReport(allAssignments) == allAssignments

RECURSIVE generatePrintData(_, _)
generatePrintData(cs, allAssignments) ==
  IF cs = << >> THEN << >>
  ELSE LET list == studentsInClassroom(Head(cs), allAssignments)
           rest == generatePrintData(Tail(cs), allAssignments)
       IN  IF list = << >> THEN rest
           ELSE << PrintReportData(Head(cs), list) >> \o rest

\* =================================================== the page's report
\* processFlowOutput (page.tsx): each assignment gets the branch and the
\* semesterSection of the student of its roll number.
processFlowOutput(out, originalStudents) ==
  [i \in 1..Len(out) |->
     LET originalStudent ==
           CHOOSE t \in Range(originalStudents) : t.rollNumber = out[i].rollNumber
     IN  [rollNumber |-> out[i].rollNumber, paper |-> out[i].paper,
          branch |-> originalStudent.branch,
          semesterSection |-> originalStudent.semesterSection,
          roomName |-> out[i].roomName, deskNumber |-> out[i].deskNumber,
          side |-> out[i].side, serialNumber |-> out[i].serialNumber]]

\* runAllocation lines 97-102: by roomName, then by serialNumber.
sortedAssignments(list) ==
  StableSort(list, [i \in 1..Len(list) |->
                     [j \in 1..Len(list) |->
                       \/ localeCompare(list[i].roomName, list[j].roomName) < 0
                       \/ /\ localeCompare(list[i].roomName, list[j].roomName) = 0
                          /\ list[i].serialNumber < list[j].serialNumber]])

\* The stored allocation of a finished call.
StoredAssignments == sortedAssignments(processFlowOutput(assignments, students))

\* The dashboard generates the reports of the stored allocation.
PrintReport ==
  /\ pc = "done"
  /\ report' = generatePrintData(classrooms, StoredAssignments)
  /\ pc' = "printed"
  /\ UNCHANGED << classrooms, students, paperOrder, byPaper, paperIdx, sorted,
                  roomIdx, roomLocals, assignments, unassignedStudents,
                  lastDesk, calls, prevCall, validationResult, seatTracker,
                  studentsToAssign >>
  /\ UNCHANGED pageVars

Next ==
  \/ Begin
  \/ EnterRoom
  \/ LeaveRooms
  \/ FillDesk
  \/ EndColumn
  \/ EndRoom
  \/ Gather
  \/ CallAgain
  \/ PrintReport

Spec == Init /\ [][Next]_vars

TypeOK ==
  /\ pc \in {"call", "rooms", "desks", "gather", "done", "printed"}
  /\ paperIdx \in 0..MaxStudents
  /\ calls \in {1, 2}

\* ==================================================== layout of one room
\* The allocator's and the report's geometry of a single classroom, for
\* every capacity and column count a stored configuration can carry.

\* Locals of the allocator and of the tools before any call.
AllocatorAtRest ==
  /\ paperOrder = << >>
  /\ byPaper = << >>
  /\ paperIdx = 0
  /\ sorted = << >>
  /\ roomIdx = 1
  /\ perCol = << >>
  /\ serial = 1
  /\ p1 = Null
  /\ p2 = Null
  /\ col = 0
  /\ row = 1
  /\ deskBase = 0
  /\ unassignedStudents = << >>
  /\ lastDesk = NoDesk
  /\ calls = 1
  /\ prevCall = NoCall
  /\ report = << >>
  /\ validationResult = NoValidation
  /\ seatTracker = << >>
  /\ studentsToAssign = << >>

\* Nothing has happened yet, on the server or on the page.
AtRest ==
  /\ AllocatorAtRest
  /\ PageAtRest

GeometryRooms ==
  { [roomName |-> 1, totalCapacity |-> cap, numberOfColumns |-> n,
     desksPerColumn |-> d] :
    cap \in 0..MaxCapacity, n \in 0..MaxColumns, d \in { << >>, <<2, 1, 1>> } }

\* One student on Side 1 of desk 1 of the room.
FirstSeat ==
  [rollNumber |-> << <<"C">>, <<"3">>, <<"1">> >>, paper |-> "M",
   branch |-> "C", semesterSection |-> << <<"3">>, <<"A">> >>,
   roomName |-> 1, deskNumber |-> 1, side |-> "Side 1", serialNumber |-> 1]

GeometryInit ==
  /\ \E room \in GeometryRooms : classrooms = << room >>
  /\ students = << >>
  /\ assignments = << FirstSeat >>
  /\ pc = "room"
  /\ AtRest

\* intelligent-seating.ts lines 136-145 for the room.
LayOut ==
  /\ pc = "room"
  /\ perCol' = PerCol(classrooms[1])
  /\ pc' = "laid"
  /\ UNCHANGED << classrooms, students, paperOrder, byPaper, paperIdx, sorted,
                  roomIdx, serial, p1, p2, col, row, deskBase, assignments,
                  unassignedStudents, lastDesk, calls, prevCall >>
  /\ UNCHANGED toolVars

\* The report of the room is generated.
DrawLayout ==
  /\ pc = "laid"
  /\ report' = generatePrintData(classrooms, assignments)
  /\ assignments' = ListAfterReport(assignments)
  /\ pc' = "drawn"
  /\ UNCHANGED << classrooms, students, paperOrder, byPaper, paperIdx, sorted,
                  roomIdx, roomLocals, unassignedStudents, lastDesk, calls,
                  prevCall, validationResult, seatTracker, studentsToAssign >>
  /\ UNCHANGED pageVars

GeometryNext ==
  \/ LayOut
  \/ DrawLayout

GeometrySpec == GeometryInit /\ [][GeometryNext]_vars

\* ================================================ two rooms, ten students
\* The allocator on RoomA (capacity 8, 2 columns) and RoomB (capacity 4,
\* 1 column) with five students of each of two papers, all of semester 3,
\* the lists given in any order.

RoomA == [roomName |-> 1, totalCapacity |-> 8, numberOfColumns |-> 2,
          desksPerColumn |-> << >>]

RoomB == [roomName |-> 2, totalCapacity |-> 4, numberOfColumns |-> 1,
          desksPerColumn |-> << >>]

ScenarioOrdinal(n) ==
  IF n = 10 THEN <<"1", "0">>
  ELSE << <<"1", "2", "3", "4", "5", "6", "7", "8", "9">>[n] >>

\* Student n of 1..10: odd ordinals take paper M, even ones paper P.
ScenarioStudent(n) ==
  [rollNumber |-> << <<"C">>, <<"3">>, ScenarioOrdinal(n) >>,
   paper |-> IF n % 2 = 1 THEN "M" ELSE "P",
   branch |-> "C", semesterSection |-> << <<"3">>, <<"A">> >>]

\* The ten students with the five of paper M at the positions in atM, each
\* paper's students by rising or by falling ordinal.
ScenarioList(atM, rising) ==
  [i \in 1..10 |->
     LET mine == IF i \in atM THEN atM ELSE (1..10) \ atM
         k == Cardinality({ j \in mine : j <= i })
         r == IF rising THEN k ELSE 6 - k
     IN  ScenarioStudent(IF i \in atM THEN 2 * r - 1 ELSE 2 * r)]

ScenarioInit ==
  /\ classrooms \in Reorderings(<< RoomA, RoomB >>)
  /\ \E atM \in { S \in SUBSET (1..10) : Cardinality(S) = 5 } :
       \E rising \in BOOLEAN : students = ScenarioList(atM, rising)
  /\ assignments = << >>
  /\ pc = "call"
  /\ AtRest

ScenarioNext ==
  \/ Begin
  \/ EnterRoom
  \/ LeaveRooms
  \/ FillDesk
  \/ EndColumn
  \/ EndRoom
  \/ Gather

ScenarioSpec == ScenarioInit /\ [][ScenarioNext]_vars

\* ============================================================ validator
\* validateSeatingArrangement of src/ai/flows/algorithmic-seating.ts.  Its
\* students carry a roll number and a paper; the semester of a student is
\* the second part of the roll number.

getClassIdPaperOnly(student) == << student.paper, <<"0">> >>

\* `${paper}-${semester}`
getClassId(student) ==
  << student.paper,
     IF Len(student.rollNumber) >= 2 THEN student.rollNumber[2] ELSE <<"0">> >>

InRoomOf(list, room) == { i \in 1..Len(list) : list[i].roomName = room }

\* `${roomName}-${deskNumber}`
deskKey(a) == << a.roomName, a.deskNumber >>

\* Keys of deskMap in insertion order.
RECURSIVE DeskKeys(_, _)
DeskKeys(list, acc) ==
  IF list = << >> THEN acc
  ELSE DeskKeys(Tail(list),
         IF deskKey(Head(list)) \in Range(acc) THEN acc
         ELSE Append(acc, deskKey(Head(list))))

studentsOnDesk(list, key) == SelectSeq(list, LAMBDA a : deskKey(a) = key)

\* allStudents.find(s => s.rollNumber === roll)
FindStudent(allStudents, roll) ==
  allStudents[CHOOSE i \in 1..Len(allStudents) :
                /\ allStudents[i].rollNumber = roll
                /\ \A j \in 1..(i - 1) : allStudents[j].rollNumber # roll]

\* Lines 280-290: the desks of exactly two students of one class.
SameClassDesks(list, allStudents) ==
  SelectSeq(DeskKeys(list, << >>),
    LAMBDA key :
      LET on == studentsOnDesk(list, key)
      IN  /\ Len(on) = 2
          /\ getClassId(FindStudent(allStudents, on[1].rollNumber))
               = getClassId(FindStudent(allStudents, on[2].rollNumber)))

\* Lines 311-327: pairs of students of one paper on desks that follow each
\* other in the ascending list of the occupied desks of a room.
AdjacentSamePaper(list) ==
  LET rooms == { list[i].roomName : i \in 1..Len(list) }
      desksOf(room) == { list[i].deskNumber : i \in InRoomOf(list, room) }
      follows(room, d, e) ==
        d < e /\ ~\E f \in desksOf(room) : d < f /\ f < e
  IN  Cardinality(
        { << i, j >> \in (1..Len(list)) \X (1..Len(list)) :
            /\ list[i].roomName = list[j].roomName
            /\ follows(list[i].roomName, list[i].deskNumber, list[j].deskNumber)
            /\ list[i].paper = list[j].paper })

validateSeatingArrangement(list, allStudents) ==
  LET found == SameClassDesks(list, allStudents)
      violations ==
        [k \in 1..Len(found) |->
           [deskKey |-> found[k],
            student1 |-> studentsOnDesk(list, found[k])[1].rollNumber,
            student2 |-> studentsOnDesk(list, found[k])[2].rollNumber]]
  IN  [isValid |-> Len(violations) = 0,
       violations |-> violations,
       totalStudents |-> Len(list),
       sameDeskViolations |-> Len(found),
       adjacentSamePaperCount |-> AdjacentSamePaper(list),
       paperDistribution |->
         [p \in { list[i].paper : i \in 1..Len(list) } |->
            Cardinality({ i \in 1..Len(list) : list[i].paper = p })]]

\* ================================================ any list of assignments
\* The report generator and the validator on a classroom and any list of
\* up to MaxListed assignments: students on distinct seats of the room, on
\* a desk beyond its geometry or in another room, the serial numbers
\* rising or falling along the list.

ListedStudents ==
  << [rollNumber |-> << <<"C">>, <<"3">>, <<"1", "0">> >>, paper |-> "M",
      branch |-> "C", semesterSection |-> << <<"3">>, <<"A">> >>],
     [rollNumber |-> << <<"C">>, <<"3">>, <<"2">> >>, paper |-> "M",
      branch |-> "C", semesterSection |-> << <<"3">>, <<"A">> >>],
     [rollNumber |-> << <<"A">>, <<"5">>, <<"x">> >>, paper |-> "M",
      branch |-> "A", semesterSection |-> << <<"5">>, <<"B">> >>],
     [rollNumber |-> << <<"C">>, <<"3">>, <<"1">> >>, paper |-> "P",
      branch |-> "C", semesterSection |-> << <<"3">>, <<"A">> >>] >>

ListRooms ==
  { [roomName |-> 1, totalCapacity |-> 10, numberOfColumns |-> 2,
     desksPerColumn |-> <<3, 2>>],
    [roomName |-> 1, totalCapacity |-> 4, numberOfColumns |-> 4,
     desksPerColumn |-> <<1, 1>>] }

ListDesks == {1, 2, 3, 4, 6}

SeatUniverse ==
  { [roomName |-> 1, deskNumber |-> d, side |-> sd] :
    d \in ListDesks, sd \in {"Side 1", "Side 2"} }
  \cup { [roomName |-> 2, deskNumber |-> 1, side |-> "Side 1"] }

\* The assignments of the students in who (positions in ListedStudents),
\* in that order, each on its seat.
ListOf(who, seats, rising) ==
  [k \in 1..Cardinality(who) |->
     LET i == CHOOSE x \in who : Cardinality({ y \in who : y <= x }) = k
         st == ListedStudents[i]
     IN  [rollNumber |-> st.rollNumber, paper |-> st.paper,
          branch |-> st.branch, semesterSection |-> st.semesterSection,
          roomName |-> seats[i].roomName, deskNumber |-> seats[i].deskNumber,
          side |-> seats[i].side,
          serialNumber |-> IF rising THEN k ELSE Cardinality(who) + 1 - k]]

ListInit ==
  /\ \E room \in ListRooms : classrooms = << room >>
  /\ students = ListedStudents
  /\ \E who \in { w \in SUBSET (1..Len(ListedStudents)) :
                     Cardinality(w) <= MaxListed } :
       \E seats \in { f \in [who -> SeatUniverse] :
                        \A x, y \in who : x # y => f[x] # f[y] } :
         \E rising \in BOOLEAN : assignments = ListOf(who, seats, rising)
  /\ pc = "list"
  /\ AtRest

\* The report of the list is generated.
GenerateReport ==
  /\ pc = "list"
  /\ report' = generatePrintData(classrooms, assignments)
  /\ assignments' = ListAfterReport(assignments)
  /\ pc' = "reported"
  /\ UNCHANGED << classrooms, students, paperOrder, byPaper, paperIdx, sorted,
                  roomIdx, roomLocals, unassignedStudents, lastDesk, calls,
                  prevCall, validationResult, seatTracker, studentsToAssign >>
  /\ UNCHANGED pageVars

\* The list is validated against the students.
Validate ==
  /\ pc = "list"
  /\ validationResult' = validateSeatingArrangement(assignments, students)
  /\ pc' = "validated"
  /\ UNCHANGED << classrooms, students, paperOrder, byPaper, paperIdx, sorted,
                  roomIdx, roomLocals, assignments, unassignedStudents,
                  lastDesk, calls, prevCall, report, seatTracker,
                  studentsToAssign >>
  /\ UNCHANGED pageVars

ListNext ==
  \/ GenerateReport
  \/ Validate

ListSpec == ListInit /\ [][ListNext]_vars

\* ================================================== algorithmicSeating
\* algorithmicSeating of src/ai/flows/algorithmic-seating.ts: a classroom
\* is a roomName and a totalCapacity, a student a rollNumber and a paper.
\* Math.random is a free choice: the Fisher-Yates shuffle can leave the
\* students in any order, and the first valid seat of the shuffled free
\* seats can be any valid free seat.  The per-paper groups the function
\* sorts (lines 67-108) are never read again and are left out.

AlgoRooms ==
  { [roomName |-> 1, totalCapacity |-> 2],
    [roomName |-> 2, totalCapacity |-> 3] }

\* Lines 121-142: the seats of the classrooms, in order.
RECURSIVE InitSeats(_)
InitSeats(cs) ==
  IF cs = << >> THEN << >>
  ELSE LET classroom == Head(cs)
           maxDesks == (classroom.totalCapacity + 1) \div 2
           seat(desk, sd) ==
             [roomName |-> classroom.roomName, deskNumber |-> desk,
              side |-> sd, occupied |-> FALSE, paper |-> Null,
              rollNumber |-> << >>]
           both(desk) ==
             IF (desk - 1) * 2 + 2 <= classroom.totalCapacity
             THEN << seat(desk, "Side 1"), seat(desk, "Side 2") >>
             ELSE << seat(desk, "Side 1") >>
           upTo[desk \in 0..maxDesks] ==
             IF desk = 0 THEN << >> ELSE upTo[desk - 1] \o both(desk)
       IN  upTo[maxDesks] \o InitSeats(Tail(cs))

\* The occupied seats on the other side of the desk of a seat.
OtherSide(tracker, seat) ==
  { k \in 1..Len(tracker) :
      /\ tracker[k].roomName = seat.roomName
      /\ tracker[k].deskNumber = seat.deskNumber
      /\ tracker[k].side # seat.side
      /\ tracker[k].occupied }

\* Lines 171-183.
sameClassOnDesk(tracker, seat, student, sts) ==
  \E k \in OtherSide(tracker, seat) :
    /\ \E i \in 1..Len(sts) : sts[i].rollNumber = tracker[k].rollNumber
    /\ getClassId(FindStudent(sts, tracker[k].rollNumber)) = getClassId(student)

samePaperOnDeskNever(tracker, seat, student, sts) == FALSE

\* Lines 190-200.
samePaperOnDesk(tracker, seat, student, sts) ==
  \E k \in OtherSide(tracker, seat) :
    /\ \E i \in 1..Len(sts) : sts[i].rollNumber = tracker[k].rollNumber
    /\ FindStudent(sts, tracker[k].rollNumber).paper = student.paper

\* The free seats the student may take.
ValidSeats(tracker, student, sts) ==
  { k \in 1..Len(tracker) :
      /\ ~tracker[k].occupied
      /\ ~sameClassOnDesk(tracker, tracker[k], student, sts)
      /\ ~samePaperOnDesk(tracker, tracker[k], student, sts) }

AlgoInit ==
  /\ classrooms \in DistinctSeqs(AlgoRooms, MaxRooms)
  /\ students \in DistinctSeqs(StudentPool, MaxShuffled)
  /\ assignments = << >>
  /\ pc = "algo"
  /\ AtRest

\* Lines 55-154: the capacity check, the seats, the shuffle.
AlgoBegin ==
  /\ pc = "algo"
  /\ LET totalCapacity ==
           SumFirst([i \in 1..Len(classrooms) |-> classrooms[i].totalCapacity],
                    Len(classrooms))
     IN  IF Len(students) > totalCapacity
         THEN /\ assignments' = << >>
              /\ unassignedStudents' = students
              /\ pc' = "returned"
              /\ UNCHANGED << seatTracker, studentsToAssign >>
         ELSE /\ assignments' = << >>
              /\ unassignedStudents' = << >>
              /\ seatTracker' = InitSeats(classrooms)
              /\ studentsToAssign' \in Reorderings(students)
              /\ pc' = "place"
  /\ UNCHANGED << classrooms, students, paperOrder, byPaper, paperIdx, sorted,
                  roomIdx, roomLocals, lastDesk, calls, prevCall, report,
                  validationResult >>
  /\ UNCHANGED pageVars

\* One pass of the student loop (lines 156-228).
PlaceStudent ==
  /\ pc = "place"
  /\ studentsToAssign # << >>
  /\ LET student == Head(studentsToAssign)
         valid == ValidSeats(seatTracker, student, students)
     IN  IF valid = {}
         THEN /\ unassignedStudents' = Append(unassignedStudents, student)
              /\ UNCHANGED << seatTracker, assignments >>
         ELSE \E k \in valid :
                /\ seatTracker' =
                     [seatTracker EXCEPT ![k].occupied = TRUE,
                                         ![k].paper = student.paper,
                                         ![k].rollNumber = student.rollNumber]
                /\ assignments' =
                     Append(assignments,
                       [rollNumber |-> student.rollNumber,
                        paper |-> student.paper,
                        roomName |-> seatTracker[k].roomName,
                        deskNumber |-> seatTracker[k].deskNumber,
                        side |-> seatTracker[k].side])
                /\ UNCHANGED unassignedStudents
  /\ studentsToAssign' = Tail(studentsToAssign)
  /\ UNCHANGED << classrooms, students, pc, paperOrder, byPaper, paperIdx,
                  sorted, roomIdx, roomLocals, lastDesk, calls, prevCall,
                  report, validationResult >>
  /\ UNCHANGED pageVars

\* Lines 230-235: the result is validated and returned.
AlgoReturn ==
  /\ pc = "place"
  /\ studentsToAssign = << >>
  /\ validationResult' = validateSeatingArrangement(assignments, students)
  /\ pc' = "returned"
  /\ UNCHANGED << classrooms, students, paperOrder, byPaper, paperIdx, sorted,
                  roomIdx, roomLocals, assignments, unassignedStudents,
                  lastDesk, calls, prevCall, report, seatTracker,
                  studentsToAssign >>
  /\ UNCHANGED pageVars

AlgoNext ==
  \/ AlgoBegin
  \/ PlaceStudent
  \/ AlgoReturn

AlgoSpec == AlgoInit /\ [][AlgoNext]_vars

\* ===================================================== calls and inputs
\* The allocator with the page's report, and the report generator and the
\* validator on any list, side by side.
FrameInit == Init \/ ListInit

FrameNext ==
  \/ Begin
  \/ EnterRoom
  \/ LeaveRooms
  \/ FillDesk
  \/ EndColumn
  \/ EndRoom
  \/ Gather
  \/ CallAgain
  \/ PrintReport
  \/ GenerateReport
  \/ Validate

FrameSpec == FrameInit /\ [][FrameNext]_vars

\* ==================================================== three papers
\* The allocator on five students of three papers, two papers with two
\* students each, given in any order.

StickyStudents ==
  << [rollNumber |-> << <<"C">>, <<"3">>, <<"1", "0">> >>, paper |-> "M",
      branch |-> "C", semesterSection |-> << <<"3">>, <<"A">> >>],
     [rollNumber |-> << <<"C">>, <<"3">>, <<"2">> >>, paper |-> "M",
      branch |-> "C", semesterSection |-> << <<"3">>, <<"A">> >>],
     [rollNumber |-> << <<"C">>, <<"3">>, <<"1">> >>, paper |-> "P",
      branch |-> "C", semesterSection |-> << <<"3">>, <<"A">> >>],
     [rollNumber |-> << <<"A">>, <<"5">>, <<"4">> >>, paper |-> "P",
      branch |-> "A", semesterSection |-> << <<"5">>, <<"B">> >>],
     [rollNumber |-> << <<"A">>, <<"5">>, <<"7">> >>, paper |-> "Q",
      branch |-> "A", semesterSection |-> << <<"5">>, <<"B">> >>] >>

StickyInit ==
  /\ classrooms \in DistinctSeqs(ClassroomPool, MaxRooms)
  /\ students \in Reorderings(StickyStudents)
  /\ assignments = << >>
  /\ pc = "call"
  /\ AtRest

StickyNext ==
  \/ Begin
  \/ EnterRoom
  \/ LeaveRooms
  \/ FillDesk
  \/ EndColumn
  \/ EndRoom
  \/ Gather

StickySpec == StickyInit /\ [][StickyNext]_vars

\* ======================================================= student manager
\* The handlers of src/components/seat-assign/student-manager.tsx.  A form
\* field is the sequence of its characters; a paper name of one character
\* is that character.  Each handler is an operator from the students the
\* component was rendered with to what it does: the list it hands to
\* setStudents (set = FALSE when it does not call setStudents), the
\* notification it raises (Null for none) and the roll numbers it generated.

\* String.prototype.trim
RECURSIVE Trim(_)
Trim(text) ==
  IF text # << >> /\ Head(text) = " " THEN Trim(Tail(text))
  ELSE IF text # << >> /\ text[Len(text)] = " "
  THEN Trim(SubSeq(text, 1, Len(text) - 1))
  ELSE text

\* String.prototype.toUpperCase
toUpperCase(text) ==
  [i \in 1..Len(text) |->
     CASE text[i] = "a" -> "A" [] text[i] = "b" -> "B" [] text[i] = "m" -> "M"
       [] text[i] = "p" -> "P" [] OTHER -> text[i]]

\* text.split(sep)
RECURSIVE SplitOn(_, _)
SplitOn(text, sep) ==
  IF sep \notin Range(text) THEN << text >>
  ELSE LET k == CHOOSE i \in 1..Len(text) :
                  /\ text[i] = sep
                  /\ \A j \in 1..(i - 1) : text[j] # sep
       IN  << SubSeq(text, 1, k - 1) >> \o SplitOn(SubSeq(text, k + 1, Len(text)), sep)

\* Lines 35-37.
getSemesterNumber(semesterSection) == Trim(SplitOn(semesterSection, "-")[1])

\* `${branch}-${semesterNumber}-${roll}`, as the parts of that text.
RollNumberOf(branch, semesterNumber, roll) ==
  SplitOn(<< branch >> \o << "-" >> \o semesterNumber \o << "-" >> \o roll, "-")

\* Decimal text of a natural number: `${i}`.
RECURSIVE NumberText(_)
NumberText(i) ==
  LET digit == CHOOSE ch \in Digits : DigitValue(ch) = i % 10
  IN  IF i < 10 THEN << digit >> ELSE Append(NumberText(i \div 10), digit)

StudentOfForm(rollNumber, paper, branch, semesterSection) ==
  [rollNumber |-> rollNumber,
   paper |-> toUpperCase(Trim(paper))[1],
   branch |-> branch,
   semesterSection |-> SplitOn(toUpperCase(Trim(semesterSection)), "-")]

HasRoll(list, rollNumber) == \E i \in 1..Len(list) : list[i].rollNumber = rollNumber

Refused(list, title, rolls) ==
  [set |-> FALSE, students |-> list, toast |-> title, rolls |-> rolls]

\* The duplicate check of line 57 dropped.
addManualStudentUnchecked(list, f) ==
  LET semesterNumber == getSemesterNumber(f.semester)
      rollNumber == RollNumberOf(f.branch, semesterNumber, f.roll)
  IN  IF \/ Trim(f.roll) = << >>
         \/ Trim(f.paper) = << >>
         \/ f.branch = ""
         \/ Trim(f.semester) = << >>
      THEN Refused(list, "Missing Information", {})
      ELSE IF semesterNumber = << >>
      THEN Refused(list, "Invalid Semester", {})
      ELSE [set |-> TRUE,
            students |-> Append(list, StudentOfForm(rollNumber, f.paper,
                                                    f.branch, f.semester)),
            toast |-> Null, rolls |-> { rollNumber }]

\* Lines 39-74.
addManualStudent(list, f) ==
  LET semesterNumber == getSemesterNumber(f.semester)
      rollNumber == RollNumberOf(f.branch, semesterNumber, f.roll)
  IN  IF \/ Trim(f.roll) = << >>
         \/ Trim(f.paper) = << >>
         \/ f.branch = ""
         \/ Trim(f.semester) = << >>
      THEN Refused(list, "Missing Information", {})
      ELSE IF semesterNumber = << >>
      THEN Refused(list, "Invalid Semester", {})
      ELSE IF HasRoll(list, rollNumber)
      THEN Refused(list, "Duplicate Student", { rollNumber })
      ELSE [set |-> TRUE,
            students |-> Append(list, StudentOfForm(rollNumber, f.paper,
                                                    f.branch, f.semester)),
            toast |-> Null, rolls |-> { rollNumber }]

\* a.rollNumber.localeCompare(b.rollNumber)
SortByRollNumber(list) ==
  StableSort(list, [i \in 1..Len(list) |->
                     [j \in 1..Len(list) |->
                       labelCompare(JoinParts(list[i].rollNumber),
                                    JoinParts(list[j].rollNumber)) < 0]])

\* Lines 105-116: the students of the range that are not yet listed.
RECURSIVE NewOfRange(_, _, _, _, _)
NewOfRange(list, f, semesterNumber, i, endNum) ==
  IF i > endNum THEN << >>
  ELSE LET rollNumber == RollNumberOf(f.branch, semesterNumber, NumberText(i))
           rest == NewOfRange(list, f, semesterNumber, i + 1, endNum)
       IN  IF ~HasRoll(list, rollNumber)
           THEN << StudentOfForm(rollNumber, f.paper, f.branch,
                                 f.semesterSection) >> \o rest
           ELSE rest

\* Lines 76-124.
addRangeStudents(list, f) ==
  LET startNum == parseInt(f.start)
      endNum == parseInt(f.end)
      semesterNumber == getSemesterNumber(f.semesterSection)
  IN  IF ~startNum.finite \/ ~endNum.finite \/ startNum.value > endNum.value
      THEN Refused(list, "Invalid Range", {})
      ELSE IF \/ Trim(f.paper) = << >>
              \/ f.branch = ""
              \/ Trim(f.semesterSection) = << >>
      THEN Refused(list, "Missing Information", {})
      ELSE IF semesterNumber = << >>
      THEN Refused(list, "Invalid Semester", {})
      ELSE [set |-> TRUE,
            students |->
              SortByRollNumber(list \o NewOfRange(list, f, semesterNumber,
                                                  startNum.value, endNum.value)),
            toast |-> "Students Added",
            rolls |-> { RollNumberOf(f.branch, semesterNumber, NumberText(i)) :
                        i \in startNum.value..endNum.value }]

\* Lines 126-128.
deleteStudent(list, rollNumber) ==
  [set |-> TRUE,
   students |-> SelectSeq(list, LAMBDA s : s.rollNumber # rollNumber),
   toast |-> Null, rolls |-> { rollNumber }]

\* Lines 130-135.
clearAllStudents ==
  [set |-> TRUE, students |-> << >>, toast |-> "All students cleared.",
   rolls |-> {}]

\* What the user can type into the two forms.
ManualForms ==
  [roll : { << "1" >>, << "2" >>, << " " >> },
   paper : { << "m" >>, << "P", " " >> },
   branch : { "C", "" },
   semester : { << "3", "-", "a" >>, << "-", "A" >> }]

RangeForms ==
  [start : { << "1" >>, << "2" >>, << "x" >> },
   end : { << "1" >>, << "2" >>, << "x" >> },
   paper : { << "m" >>, << "P", " " >> },
   branch : { "C", "" },
   semesterSection : { << "3", "-", "a" >>, << "-", "A" >> }]

\* ================================================================ the page
\* Home of src/app/page.tsx with its two managers.  The debounce effect
\* (lines 118-125) runs whenever students, classrooms or runAllocation
\* change: it clears the pending timer and arms a new one that holds the
\* runAllocation of that render, a closure over students, classrooms and
\* disableAutoAllocate.

Closure(cs, ss, disabled) ==
  [classrooms |-> cs, students |-> ss, disabled |-> disabled]

serverVars == << classrooms, students, pc, paperOrder, byPaper, paperIdx,
                 sorted, roomIdx, roomLocals, assignments, unassignedStudents,
                 lastDesk, calls, prevCall, report, validationResult,
                 seatTracker, studentsToAssign >>

\* A handler of the student manager has run with the given outcome.
StudentManagerSets(outcome, name) ==
  /\ page.changes < MaxChanges
  /\ pageStudents' = outcome.students
  /\ handler' = IF outcome.set
                THEN << Closure(pageClassrooms, outcome.students,
                                disableAutoAllocate) >>
                ELSE handler
  /\ lastToast' = IF outcome.toast = Null THEN lastToast ELSE outcome.toast
  /\ page' = [page EXCEPT !.changes = @ + 1,
                          !.snapshot = IF outcome.set THEN << >> ELSE @,
                          !.op = name,
                          !.rolls = outcome.rolls]
  /\ UNCHANGED << pageClassrooms, allocation, isLoading, disableAutoAllocate,
                  reenable, inflight, file >>
  /\ UNCHANGED serverVars

AddManualStudent ==
  \E f \in ManualForms :
    StudentManagerSets(addManualStudent(pageStudents, f), "addManualStudent")

AddRangeStudents ==
  \E f \in RangeForms :
    StudentManagerSets(addRangeStudents(pageStudents, f), "addRangeStudents")

DeleteStudent ==
  \E i \in 1..Len(pageStudents) :
    StudentManagerSets(deleteStudent(pageStudents, pageStudents[i].rollNumber),
                       "deleteStudent")

ClearAllStudents == StudentManagerSets(clearAllStudents, "clearAllStudents")

\* The page after its first render: empty lists, the timer of the mount armed.
PageMounted ==
  /\ pageClassrooms = << >>
  /\ pageStudents = << >>
  /\ allocation = NoAllocation
  /\ isLoading = FALSE
  /\ disableAutoAllocate = FALSE
  /\ handler = << Closure(<< >>, << >>, FALSE) >>
  /\ reenable = 0
  /\ inflight = {}
  /\ file = << >>
  /\ lastToast = Null
  /\ page = NoHistory

\* --------------------------------------------------- the student list
\* The student manager alone, from the empty list.
RosterInit ==
  /\ classrooms = << >>
  /\ students = << >>
  /\ assignments = << >>
  /\ pc = "roster"
  /\ AllocatorAtRest
  /\ PageMounted

RosterNext ==
  \/ AddManualStudent
  \/ AddRangeStudents
  \/ DeleteStudent
  \/ ClearAllStudents

RosterSpec == RosterInit /\ [][RosterNext]_vars

\* ------------------------------------------------ the classroom manager
\* onSubmit and deleteClassroom of classroom-manager.tsx.  The form values
\* have passed formSchema; the id of a new classroom, a timestamp, is a
\* number greater than the ids of the classrooms listed.

ClassroomForms ==
  [roomName : {1}, totalCapacity : {0, 2}, numberOfColumns : {1},
   desksPerColumn : { << >>, << "1" >>, << "1", ",", "x" >> },
   useAdvancedMode : BOOLEAN]

\* Lines 100-103: the positive numbers among the comma-separated texts.
ParseDesks(text) ==
  LET texts == SplitOn(text, ",")
      nums == [i \in 1..Len(texts) |-> parseInt(Trim(texts[i]))]
      kept == SelectSeq(nums, LAMBDA n : n.finite /\ n.value > 0)
  IN  [i \in 1..Len(kept) |-> kept[i].value]

\* Lines 81-155.
onSubmit(list, f, id) ==
  LET NewClassroom(totalCapacity, desksPerColumn) ==
        [id |-> id, roomName |-> f.roomName, totalCapacity |-> totalCapacity,
         numberOfColumns |-> f.numberOfColumns,
         desksPerColumn |-> desksPerColumn]
  IN
  IF f.useAdvancedMode
  THEN IF Trim(f.desksPerColumn) = << >>
       THEN [set |-> FALSE, classrooms |-> list, toast |-> "Missing Configuration"]
       ELSE LET desksPerColumn == ParseDesks(f.desksPerColumn)
            IN  IF Len(desksPerColumn) # f.numberOfColumns
                THEN [set |-> FALSE, classrooms |-> list,
                      toast |-> "Invalid Configuration"]
                ELSE [set |-> TRUE,
                      classrooms |->
                        Append(list,
                          NewClassroom(
                            2 * SumFirst(desksPerColumn, Len(desksPerColumn)),
                            desksPerColumn)),
                      toast |-> "Classroom Added"]
  ELSE IF f.totalCapacity <= 0
       THEN [set |-> FALSE, classrooms |-> list, toast |-> "Invalid Capacity"]
       ELSE [set |-> TRUE,
             classrooms |-> Append(list, NewClassroom(f.totalCapacity, << >>)),
             toast |-> "Classroom Added"]

\* Lines 157-159.
deleteClassroom(list, id) ==
  [set |-> TRUE, classrooms |-> SelectSeq(list, LAMBDA c : c.id # id),
   toast |-> Null]

\* A handler of the classroom manager has run with the given outcome.
ClassroomManagerSets(outcome, name) ==
  /\ page.changes < MaxChanges
  /\ pageClassrooms' = outcome.classrooms
  /\ handler' = IF outcome.set
                THEN << Closure(outcome.classrooms, pageStudents,
                                disableAutoAllocate) >>
                ELSE handler
  /\ lastToast' = IF outcome.toast = Null THEN lastToast ELSE outcome.toast
  /\ page' = [page EXCEPT !.changes = @ + 1,
                          !.snapshot = IF outcome.set THEN << >> ELSE @,
                          !.op = name,
                          !.rolls = {}]
  /\ UNCHANGED << pageStudents, allocation, isLoading, disableAutoAllocate,
                  reenable, inflight, file >>
  /\ UNCHANGED serverVars

\* A timestamp later than those of the classrooms listed.
RECURSIVE NextId(_)
NextId(list) ==
  IF list = << >> THEN 1 ELSE Max(Head(list).id + 1, NextId(Tail(list)))

AddClassroom ==
  \E f \in ClassroomForms :
    ClassroomManagerSets(onSubmit(pageClassrooms, f, NextId(pageClassrooms)),
                         "onSubmit")

DeleteClassroom ==
  \E i \in 1..Len(pageClassrooms) :
    ClassroomManagerSets(deleteClassroom(pageClassrooms, pageClassrooms[i].id),
                         "deleteClassroom")

\* ------------------------------------------------------------ snapshots
\* exportSnapshot (lines 136-156): the document is written to the file.
ExportSnapshot ==
  /\ page.changes < MaxChanges
  /\ file' = << [classrooms |-> pageClassrooms, students |-> pageStudents,
                 allocation |-> << allocation >>] >>
  /\ lastToast' = "Snapshot Saved"
  /\ page' = [page EXCEPT !.changes = @ + 1, !.op = "exportSnapshot",
                          !.rolls = {}]
  /\ UNCHANGED << pageClassrooms, pageStudents, allocation, isLoading,
                  disableAutoAllocate, handler, reenable, inflight >>
  /\ UNCHANGED serverVars

\* importSnapshot (lines 158-186) on the saved file or on a JSON file that
\* is no snapshot: it has no allocation.
ImportSnapshot ==
  \E snap \in Range(file) \cup { [classrooms |-> << >>, students |-> << >>,
                                   allocation |-> << >>] } :
  /\ page.changes < MaxChanges
  /\ IF snap.allocation = << >>
     THEN /\ lastToast' = "Load Failed"
          /\ page' = [page EXCEPT !.changes = @ + 1, !.op = "importSnapshot",
                                  !.rolls = {}]
          /\ UNCHANGED << pageClassrooms, pageStudents, allocation,
                          disableAutoAllocate, handler, reenable >>
     ELSE /\ disableAutoAllocate' = TRUE
          /\ pageClassrooms' = snap.classrooms
          /\ pageStudents' = snap.students
          /\ allocation' = snap.allocation[1]
          /\ reenable' = reenable + 1
          /\ handler' = << Closure(snap.classrooms, snap.students, TRUE) >>
          /\ lastToast' = "Snapshot Loaded"
          /\ page' = [page EXCEPT !.changes = @ + 1, !.loads = @ + 1,
                                  !.snapshot = << snap.allocation[1] >>,
                                  !.op = "importSnapshot", !.rolls = {}]
  /\ UNCHANGED << isLoading, inflight, file >>
  /\ UNCHANGED serverVars

\* Line 177: 100 ms after the import disableAutoAllocate is set to false.  A
\* changed flag gives a new runAllocation, and the effect arms its timer.
Reenable ==
  /\ reenable > 0
  /\ reenable' = reenable - 1
  /\ disableAutoAllocate' = FALSE
  /\ handler' = IF disableAutoAllocate
                THEN << Closure(pageClassrooms, pageStudents, FALSE) >>
                ELSE handler
  /\ UNCHANGED << pageClassrooms, pageStudents, allocation, isLoading,
                  inflight, file, lastToast, page >>
  /\ UNCHANGED serverVars

\* -------------------------------------------------------- runAllocation
\* prepareFlowInput (lines 17-33).
prepareFlowInput(cs, ss) ==
  [classrooms |-> [i \in 1..Len(cs) |->
                     [roomName |-> cs[i].roomName,
                      totalCapacity |-> cs[i].totalCapacity,
                      numberOfColumns |-> cs[i].numberOfColumns,
                      desksPerColumn |-> cs[i].desksPerColumn]],
   students |-> [i \in 1..Len(ss) |->
                   [rollNumber |-> ss[i].rollNumber, paper |-> ss[i].paper,
                    branch |-> ss[i].branch,
                    semesterSection |-> ss[i].semesterSection]]]

\* Lines 94-104: what setAllocation receives for an output of the call,
\* the unassigned students as the page holds them (lines 50-53).
AllocationOf(output, originalStudents) ==
  [assignments |->
     sortedAssignments(processFlowOutput(output.assignments, originalStudents)),
   unassignedStudents |->
     [i \in 1..Len(output.unassignedStudents) |->
        CHOOSE t \in Range(originalStudents) :
          t.rollNumber = output.unassignedStudents[i].rollNumber]]

\* The debounce timer has been pending for 300 ms: runAllocation of the
\* render that armed it runs, up to its await.  A timer armed at or after
\* an import runs after the 100 ms timer of that import.
Fire ==
  /\ handler # << >>
  /\ reenable = 0
  /\ LET run == handler[1]
         totalCapacity ==
           SumFirst([i \in 1..Len(run.classrooms) |->
                       run.classrooms[i].totalCapacity], Len(run.classrooms))
     IN  IF run.disabled
         THEN UNCHANGED << allocation, isLoading, inflight, lastToast, page >>
         ELSE IF run.students = << >> \/ run.classrooms = << >>
         THEN /\ allocation' = [assignments |-> << >>,
                                unassignedStudents |-> run.students]
              /\ isLoading' = FALSE
              /\ page' = [page EXCEPT !.current = 0,
                                      !.expected = << allocation' >>]
              /\ UNCHANGED << inflight, lastToast >>
         ELSE /\ isLoading' = TRUE
              /\ lastToast' = IF totalCapacity < Len(run.students)
                              THEN "Not Enough Capacity" ELSE lastToast
              /\ inflight' = inflight \cup
                   { [id |-> page.runs + 1, state |-> "sent",
                      input |-> prepareFlowInput(run.classrooms, run.students),
                      students |-> run.students, output |-> << >>] }
              /\ page' = [page EXCEPT !.runs = @ + 1, !.current = page.runs + 1,
                                      !.expected = << >>]
              /\ UNCHANGED allocation
  /\ handler' = << >>
  /\ UNCHANGED << pageClassrooms, pageStudents, disableAutoAllocate, reenable,
                  file >>
  /\ UNCHANGED serverVars

\* The server takes up one of the calls sent to it.
Serve ==
  /\ pc = "idle"
  /\ \E r \in inflight :
       /\ r.state = "sent"
       /\ classrooms' = r.input.classrooms
       /\ students' = r.input.students
       /\ inflight' = (inflight \ { r }) \cup { [r EXCEPT !.state = "running"] }
  /\ pc' = "call"
  /\ UNCHANGED << paperOrder, byPaper, paperIdx, sorted, roomIdx, roomLocals,
                  assignments, unassignedStudents, lastDesk, calls, prevCall,
                  report, validationResult, seatTracker, studentsToAssign >>
  /\ UNCHANGED << pageClassrooms, pageStudents, allocation, isLoading,
                  disableAutoAllocate, handler, reenable, file, lastToast,
                  page >>

\* The call returns its output (intelligent-seating.ts line 219); nothing
\* of it stays on the server.
Respond ==
  /\ pc = "done"
  /\ \E r \in inflight :
       /\ r.state = "running"
       /\ inflight' = (inflight \ { r }) \cup
            { [r EXCEPT !.state = "answered",
                        !.output = << [assignments |-> assignments,
                                       unassignedStudents |->
                                         unassignedStudents] >>] }
  /\ classrooms' = << >>
  /\ students' = << >>
  /\ assignments' = << >>
  /\ pc' = "idle"
  /\ paperOrder' = << >>
  /\ byPaper' = << >>
  /\ paperIdx' = 0
  /\ sorted' = << >>
  /\ roomIdx' = 1
  /\ perCol' = << >>
  /\ serial' = 1
  /\ p1' = Null
  /\ p2' = Null
  /\ col' = 0
  /\ row' = 1
  /\ deskBase' = 0
  /\ unassignedStudents' = << >>
  /\ lastDesk' = NoDesk
  /\ UNCHANGED << calls, prevCall, report, validationResult, seatTracker,
                  studentsToAssign >>
  /\ UNCHANGED << pageClassrooms, pageStudents, allocation, isLoading,
                  disableAutoAllocate, handler, reenable, file, lastToast,
                  page >>

\* Lines 93-104 and 115 for a call whose output has arrived.
Resolve ==
  \E r \in inflight :
    /\ r.state = "answered"
    /\ allocation' = AllocationOf(r.output[1], r.students)
    /\ isLoading' = FALSE
    /\ inflight' = inflight \ { r }
    /\ page' = [page EXCEPT !.expected = IF r.id = page.current
                                         THEN << allocation' >> ELSE @]
    /\ UNCHANGED << pageClassrooms, pageStudents, disableAutoAllocate, handler,
                    reenable, file, lastToast >>
    /\ UNCHANGED serverVars

\* The catch block without the line after it.
RejectKeepsLoading ==
  \E r \in inflight :
    /\ r.state \in {"sent", "answered"}
    /\ lastToast' = "Allocation Failed"
    /\ inflight' = inflight \ { r }
    /\ page' = [page EXCEPT !.failures = @ + 1]
    /\ UNCHANGED << pageClassrooms, pageStudents, allocation, isLoading,
                    disableAutoAllocate, handler, reenable, file >>
    /\ UNCHANGED serverVars

\* Lines 106-115 for a call that rejects, on its way to the server or back.
Reject ==
  \E r \in inflight :
    /\ r.state \in {"sent", "answered"}
    /\ lastToast' = "Allocation Failed"
    /\ isLoading' = FALSE
    /\ inflight' = inflight \ { r }
    /\ page' = [page EXCEPT !.failures = @ + 1]
    /\ UNCHANGED << pageClassrooms, pageStudents, allocation,
                    disableAutoAllocate, handler, reenable, file >>
    /\ UNCHANGED serverVars

PageInit ==
  /\ classrooms = << >>
  /\ students = << >>
  /\ assignments = << >>
  /\ pc = "idle"
  /\ AllocatorAtRest
  /\ PageMounted

PageNext ==
  \/ AddManualStudent
  \/ AddRangeStudents
  \/ DeleteStudent
  \/ ClearAllStudents
  \/ AddClassroom
  \/ DeleteClassroom
  \/ ExportSnapshot
  \/ ImportSnapshot
  \/ Reenable
  \/ Fire
  \/ Serve
  \/ Begin
  \/ EnterRoom
  \/ LeaveRooms
  \/ FillDesk
  \/ EndColumn
  \/ EndRoom
  \/ Gather
  \/ Respond
  \/ Resolve
  \/ Reject

PageSpec == PageInit /\ [][PageNext]_vars

\* ============================================================ properties

Returned == pc = "done"

StudentOf(roll) == CHOOSE s \in Range(students) : s.rollNumber = roll

InRoom(list, name) == { i \in 1..Len(list) : list[i].roomName = name }

RECURSIVE Sum(_, _)
Sum(q, i) == IF i > Len(q) THEN 0 ELSE q[i] + Sum(q, i + 1)

DeskCount(room) == Sum(PerCol(room), 1)

TotalCapacity == Sum([i \in 1..Len(classrooms) |-> classrooms[i].totalCapacity], 1)

\* Filling preference as the specification words it: 4-column rooms, then
\* 5-column rooms, then the others; equal classes by roomName ascending.
FillingClass(room) ==
  CASE room.numberOfColumns = 4 -> 0
    [] room.numberOfColumns = 5 -> 1
    [] OTHER -> 2

Precedes(a, b) ==
  \/ FillingClass(a) < FillingClass(b)
  \/ (FillingClass(a) = FillingClass(b) /\ a.roomName < b.roomName)

RoomNamed(name) == CHOOSE c \in Range(classrooms) : c.roomName = name

\* What a result says about one student.
Outcome(out, roll) ==
  [seats |-> { [roomName |-> out.assignments[i].roomName,
                deskNumber |-> out.assignments[i].deskNumber,
                side |-> out.assignments[i].side,
                serialNumber |-> out.assignments[i].serialNumber] :
               i \in { k \in 1..Len(out.assignments) :
                       out.assignments[k].rollNumber = roll } },
   unassigned |-> \E i \in 1..Len(out.unassignedStudents) :
                     out.unassignedStudents[i].rollNumber = roll]

SameOutcomes(o1, o2) ==
  \A s \in Range(students) : Outcome(o1, s.rollNumber) = Outcome(o2, s.rollNumber)

\* C1: no two assignments of one (roomName, deskNumber) belong to students
\* of equal ConflictClass (paper and semester number), at any point of a call.
C1_NoEqualClassOnOneDesk ==
  \A i, j \in 1..Len(assignments) :
    ( /\ i # j
      /\ assignments[i].roomName = assignments[j].roomName
      /\ assignments[i].deskNumber = assignments[j].deskNumber )
    => ConflictClass(StudentOf(assignments[i].rollNumber))
         # ConflictClass(StudentOf(assignments[j].rollNumber))

\* A call returned a desk with two occupants although two students of one
\* ConflictClass were among the input.
C1_Witness ==
  /\ Returned
  /\ \E s, t \in Range(students) : s # t /\ ConflictClass(s) = ConflictClass(t)
  /\ \E i, j \in 1..Len(assignments) :
       /\ i # j
       /\ assignments[i].roomName = assignments[j].roomName
       /\ assignments[i].deskNumber = assignments[j].deskNumber

\* C2: in every room the serial numbers of its assignments are exactly
\* 1..k, k the number of assignments of the room.
C2_SerialsAreOneToK ==
  \A c \in Range(classrooms) :
    LET here == InRoom(assignments, c.roomName)
    IN  { assignments[i].serialNumber : i \in here } = 1..Cardinality(here)

\* A call returned with three seats filled in one room and a seat filled in
\* another room.
C2_Witness ==
  /\ Returned
  /\ \E c, d \in Range(classrooms) :
       /\ c # d
       /\ Cardinality(InRoom(assignments, c.roomName)) >= 3
       /\ Cardinality(InRoom(assignments, d.roomName)) >= 1

\* C3: when a call has returned, every input student occurs exactly once in
\* assignments and unassignedStudents taken together, and nobody else occurs.
C3_EveryStudentExactlyOnce ==
  Returned =>
    /\ \A s \in Range(students) :
         Cardinality({ i \in 1..Len(assignments) :
                       assignments[i].rollNumber = s.rollNumber })
         + Cardinality({ i \in 1..Len(unassignedStudents) :
                         unassignedStudents[i].rollNumber = s.rollNumber }) = 1
    /\ \A i \in 1..Len(assignments) :
         \E s \in Range(students) : s.rollNumber = assignments[i].rollNumber
    /\ \A i \in 1..Len(unassignedStudents) : unassignedStudents[i] \in Range(students)

\* A call returned with some students seated and some unassigned.
C3_Witness ==
  /\ Returned
  /\ Len(assignments) >= 2
  /\ Len(unassignedStudents) >= 1

\* C4: when the total capacity is below the number of students, the call
\* returns no assignment and all students, in input order, as unassigned.
C4_FastFailOnShortCapacity ==
  (Returned /\ TotalCapacity < Len(students)) =>
    (assignments = << >> /\ unassignedStudents = students)

\* C5: a second call on identical inputs gives every student the outcome of
\* the first call.
C5_SameInputsSameOutcome ==
  (Returned /\ calls = 2 /\ classrooms = prevCall.classrooms) =>
    SameOutcomes(Output, prevCall)

\* A second call on identical inputs returned, with students seated on both
\* sides of a desk and the rotation pointer moved.
C5_Witness ==
  /\ Returned
  /\ calls = 2
  /\ classrooms = prevCall.classrooms
  /\ Len(assignments) >= 3
  /\ paperIdx # 0

\* C6: a room never holds more assignments than its totalCapacity, nor more
\* than two per desk of its geometry.
C6_RoomWithinCapacityAndDesks ==
  \A c \in Range(classrooms) :
    LET k == Cardinality(InRoom(assignments, c.roomName))
    IN  k <= c.totalCapacity /\ k <= 2 * DeskCount(c)

\* A call returned with students left over and a room whose explicit
\* desksPerColumn disagrees with totalCapacity filled to the smaller of both.
C6_Witness ==
  /\ Returned
  /\ unassignedStudents # << >>
  /\ \E c, d \in Range(classrooms) :
       /\ Len(c.desksPerColumn) = Columns(c)
       /\ 2 * DeskCount(c) < c.totalCapacity
       /\ Cardinality(InRoom(assignments, c.roomName)) = 2 * DeskCount(c)
       /\ Len(d.desksPerColumn) = Columns(d)
       /\ 2 * DeskCount(d) > d.totalCapacity
       /\ Cardinality(InRoom(assignments, d.roomName)) = d.totalCapacity

\* C7 as claimed: a desk visited while students of two distinct
\* ConflictClasses wait and two seats are left in the room gets both sides.
C7_BothSidesWhenTwoClassesWait ==
  (lastDesk.visited /\ lastDesk.classesWaiting >= 2 /\ lastDesk.seatsLeft >= 2)
    => lastDesk.filled = 2

\* C7 amended: a desk visited while students of two distinct papers wait and
\* two seats are left in the room gets both sides; with seats left, Side 2
\* stays empty only when all waiting students take one paper.
C7_BothSidesWhenTwoPapersWait ==
  /\ (lastDesk.visited /\ lastDesk.papersWaiting >= 2 /\ lastDesk.seatsLeft >= 2)
       => lastDesk.filled = 2
  /\ (lastDesk.visited /\ lastDesk.filled < 2 /\ lastDesk.seatsLeft >= 2)
       => (lastDesk.filled = 1 /\ lastDesk.papersWaiting = 1)

\* A desk got both sides with exactly two seats left in its room, two papers
\* waiting.
C7_Witness ==
  /\ lastDesk.visited
  /\ lastDesk.papersWaiting >= 2
  /\ lastDesk.seatsLeft = 2
  /\ lastDesk.filled = 2

\* C8: a room holds assignments only if every room before it in the filling
\* preference is at totalCapacity or has Side 1 of each of its desks taken.
C8_RoomsFilledInPreferenceOrder ==
  \A a, b \in Range(classrooms) :
    (Precedes(a, b) /\ InRoom(assignments, b.roomName) # {}) =>
      \/ Cardinality(InRoom(assignments, a.roomName)) = a.totalCapacity
      \/ \A d \in 1..DeskCount(a) :
           \E i \in InRoom(assignments, a.roomName) :
             assignments[i].deskNumber = d /\ assignments[i].side = "Side 1"

\* A call returned with students in a 5-column room of smaller roomName and
\* in the 4-column room filled before it.
C8_Witness ==
  /\ Returned
  /\ \E a, b \in Range(classrooms) :
       /\ a.numberOfColumns = 4
       /\ b.numberOfColumns = 5
       /\ b.roomName < a.roomName
       /\ InRoom(assignments, a.roomName) # {}
       /\ InRoom(assignments, b.roomName) # {}

\* C9: a call on a reordered classroom list gives every student the outcome
\* of the call on the original list.
C9_ClassroomOrderIrrelevant ==
  (Returned /\ calls = 2 /\ Range(classrooms) = Range(prevCall.classrooms)) =>
    SameOutcomes(Output, prevCall)

\* A call on a reordered list of two rooms of one filling class returned,
\* with students in both rooms.
C9_Witness ==
  /\ Returned
  /\ calls = 2
  /\ classrooms # prevCall.classrooms
  /\ \E a, b \in Range(classrooms) :
       /\ a # b
       /\ FillingClass(a) = FillingClass(b)
       /\ InRoom(assignments, a.roomName) # {}
       /\ InRoom(assignments, b.roomName) # {}

\* C10: of two students of one ConflictClass, the one with the larger numeric
\* suffix is assigned only if the other one is, in an earlier room of the
\* preference order or in the same room under a smaller serial number.
C10_SmallerSuffixSeatedFirst ==
  \A i \in 1..Len(assignments) :
    \A a \in Range(students) :
      LET b == StudentOf(assignments[i].rollNumber)
      IN  ( /\ ConflictClass(a) = ConflictClass(b)
            /\ extractRollNumberNumeric(a.rollNumber)
                 < extractRollNumberNumeric(b.rollNumber) )
          => \E j \in 1..Len(assignments) :
               /\ assignments[j].rollNumber = a.rollNumber
               /\ \/ Precedes(RoomNamed(assignments[j].roomName),
                              RoomNamed(assignments[i].roomName))
                  \/ /\ assignments[j].roomName = assignments[i].roomName
                     /\ assignments[j].serialNumber < assignments[i].serialNumber

\* A call returned with the student of non-numeric suffix seated and the
\* student of its ConflictClass with suffix 10, given earlier in the input,
\* seated after it in a later room.
C10_Witness ==
  /\ Returned
  /\ \E i, j \in 1..Len(assignments) :
       LET a == StudentOf(assignments[j].rollNumber)
           b == StudentOf(assignments[i].rollNumber)
       IN  /\ ConflictClass(a) = ConflictClass(b)
           /\ extractRollNumberNumeric(a.rollNumber) = 0
           /\ extractRollNumberNumeric(b.rollNumber) = 10
           /\ assignments[j].roomName # assignments[i].roomName
           /\ \E m, n \in 1..Len(students) :
                m < n /\ students[m] = b /\ students[n] = a

\* ------------------------------------------------------------------ C11
Ceil2(n) == (n + 1) \div 2

\* The even distribution of b benches over n columns, stated by its
\* properties: n entries that sum to b, the first (b mod n) of them one
\* larger than the others, which are floor(b / n).
IsEvenDistribution(q, b, n) ==
  /\ Len(q) = n
  /\ SumFirst(q, n) = b
  /\ \A i \in 1..n : q[i] = (IF i <= b % n THEN (b \div n) + 1 ELSE b \div n)

GeometryRoom == classrooms[1]

NoUsableList(room) == Len(room.desksPerColumn) # room.numberOfColumns

ValidRoom(room) == room.numberOfColumns >= 1 /\ room.totalCapacity >= 1

\* C11: for a room without a desksPerColumn of the right length, the
\* allocator and the report generator both lay out ceil(totalCapacity / 2)
\* benches over numberOfColumns columns, the first (benches mod columns)
\* columns one bench larger than the rest; capacity 50 over 4 columns
\* gives 7, 6, 6, 6.
C11_EvenDistribution ==
  (ValidRoom(GeometryRoom) /\ NoUsableList(GeometryRoom)) =>
    /\ pc \in {"laid", "drawn"} =>
         /\ IsEvenDistribution(perCol, Ceil2(GeometryRoom.totalCapacity),
                               GeometryRoom.numberOfColumns)
         /\ (GeometryRoom.totalCapacity = 50 /\ GeometryRoom.numberOfColumns = 4)
              => perCol = <<7, 6, 6, 6>>
    /\ pc = "drawn" =>
         /\ Len(report) = 1
         /\ report[1].benchesPerColumn = perCol

\* The room of capacity 50 and 4 columns was laid out and drawn, its list
\* of the wrong length set aside.
C11_Witness ==
  /\ pc = "drawn"
  /\ GeometryRoom.totalCapacity = 50
  /\ GeometryRoom.numberOfColumns = 4
  /\ GeometryRoom.desksPerColumn = <<2, 1, 1>>
  /\ report[1].benchesPerColumn = <<7, 6, 6, 6>>

\* ------------------------------------------------------------------ C13
\* C13: the layout of a room with numberOfColumns < 1 or totalCapacity < 1
\* fails: no geometry is built for it and no report is drawn on one.
C13_InvalidRoomHasNoLayout ==
  ~ValidRoom(GeometryRoom) => (perCol = << >> /\ report = << >>)

\* ------------------------------------------------------------------ C14
\* C14: on RoomA (capacity 8, 2 columns) and RoomB (capacity 4, 1 column)
\* with two papers of five students each, all of one semester, the call
\* seats all ten students, leaves nobody unassigned, puts no two students
\* of equal ConflictClass on one desk and leaves exactly 2 of the 12 seats
\* unused.
C14_TenStudentsInTwoRooms ==
  Returned =>
    /\ { assignments[i].rollNumber : i \in 1..Len(assignments) }
         = { s.rollNumber : s \in Range(students) }
    /\ Len(assignments) = 10
    /\ unassignedStudents = << >>
    /\ \A i, j \in 1..Len(assignments) :
         ( /\ i < j
           /\ assignments[i].roomName = assignments[j].roomName
           /\ assignments[i].deskNumber = assignments[j].deskNumber )
         => ConflictClass(StudentOf(assignments[i].rollNumber))
              # ConflictClass(StudentOf(assignments[j].rollNumber))
    /\ TotalCapacity = 12
    /\ TotalCapacity - Len(assignments) = 2

\* The call returned for RoomB given before RoomA and the student of
\* ordinal 10 given first: eight students sit in RoomA, two in RoomB.
C14_Witness ==
  /\ Returned
  /\ classrooms[1] = RoomB
  /\ students[1] = ScenarioStudent(10)
  /\ Cardinality(InRoom(assignments, RoomA.roomName)) = 8
  /\ Cardinality(InRoom(assignments, RoomB.roomName)) = 2

\* ------------------------------------------------------------------ C12
ListedRoom(room) == Len(room.desksPerColumn) = room.numberOfColumns

ReportOf(room) ==
  { k \in 1..Len(report) : report[k].classroom.roomName = room.roomName }

\* C12: a desksPerColumn of numberOfColumns entries is the geometry of the
\* room for the allocator and for the report, whatever totalCapacity says,
\* and every deskNumber assigned in the room lies in 1..sum of the list; a
\* list of another length is ignored and the even distribution is used.
C12_ListedGeometryUsedVerbatim ==
  /\ pc = "desks" =>
       LET room == sorted[roomIdx]
       IN  IF ListedRoom(room) THEN perCol = room.desksPerColumn
           ELSE IsEvenDistribution(perCol, Ceil2(room.totalCapacity),
                                   room.numberOfColumns)
  /\ \A c \in Range(classrooms) :
       ListedRoom(c) =>
         \A i \in InRoom(assignments, c.roomName) :
           assignments[i].deskNumber \in
             1..SumFirst(c.desksPerColumn, Len(c.desksPerColumn))
  /\ pc = "printed" =>
       \A c \in Range(classrooms) : \A k \in ReportOf(c) :
         IF ListedRoom(c) THEN report[k].benchesPerColumn = c.desksPerColumn
         ELSE IsEvenDistribution(report[k].benchesPerColumn,
                                 Ceil2(c.totalCapacity), c.numberOfColumns)

\* A report was generated for a room filled on its list of one bench
\* (for a capacity of 4) and for a room whose list of the wrong length was
\* set aside.
C12_Witness ==
  /\ pc = "printed"
  /\ \E c, d \in Range(classrooms) :
       /\ ListedRoom(c)
       /\ c.totalCapacity > 2 * SumFirst(c.desksPerColumn, Len(c.desksPerColumn))
       /\ InRoom(assignments, c.roomName) # {}
       /\ ReportOf(c) # {}
       /\ ~ListedRoom(d)
       /\ d.desksPerColumn # << >>
       /\ ReportOf(d) # {}

\* ------------------------------------------------------------------ C15
Reported == pc = "reported"

\* C15: the report of a room that holds an assignment has 2 x
\* numberOfColumns sub-columns, each of length maxRowsInColumn, the largest
\* bench count of a column; the cells beyond a column's benches are empty.
\* Benches 3, 2 give four sub-columns of length 3.
C15_GridShape ==
  Reported =>
    /\ Len(report) = (IF InRoom(assignments, classrooms[1].roomName) # {}
                      THEN 1 ELSE 0)
    /\ \A k \in 1..Len(report) :
         LET r == report[k]
             bpc == r.benchesPerColumn
             n == r.classroom.numberOfColumns
         IN  /\ Len(r.columns) = 2 * n
             /\ \A j \in 1..Len(r.columns) : Len(r.columns[j]) = r.maxRowsInColumn
             /\ \A c \in 1..n : bpc[c] <= r.maxRowsInColumn
             /\ \E c \in 1..n : bpc[c] = r.maxRowsInColumn
             /\ \A c \in 1..n : \A x \in (bpc[c] + 1)..r.maxRowsInColumn :
                  r.columns[2 * c - 1][x] = << >> /\ r.columns[2 * c][x] = << >>
             /\ bpc = <<3, 2>> =>
                  /\ Len(r.columns) = 4
                  /\ \A j \in 1..4 : Len(r.columns[j]) = 3

\* A report of the room of benches 3, 2 that holds a student.
C15_Witness ==
  /\ Reported
  /\ Len(report) = 1
  /\ report[1].benchesPerColumn = <<3, 2>>
  /\ Len(report[1].columns[4]) = 3

\* ------------------------------------------------------------------ C16
\* The assignments of the list in a room on a seat, as cells: none or one.
OnSeat(name, desk, sd) ==
  { assignments[i] : i \in { x \in InRoom(assignments, name) :
      assignments[x].deskNumber = desk /\ assignments[x].side = sd } }

CellSet(cell) == { cell[i] : i \in 1..Len(cell) }

\* C16: row r of physical column c shows in sub-column 2c-1 the room's
\* assignment on Side 1 of desk (benches of the columns before c) + r and
\* in sub-column 2c the one on Side 2 of that desk; a cell is empty exactly
\* when there is no such assignment.  Serial numbers and list positions
\* play no part.
C16_CellsByDeskAndSide ==
  Reported =>
    \A k \in 1..Len(report) :
      LET r == report[k]
          bpc == r.benchesPerColumn
      IN  \A c \in 1..Len(bpc) : \A x \in 1..bpc[c] :
            LET desk == SumFirst(bpc, c - 1) + x
            IN  /\ Len(r.columns[2 * c - 1][x]) <= 1
                /\ Len(r.columns[2 * c][x]) <= 1
                /\ CellSet(r.columns[2 * c - 1][x])
                     = OnSeat(r.classroom.roomName, desk, "Side 1")
                /\ CellSet(r.columns[2 * c][x])
                     = OnSeat(r.classroom.roomName, desk, "Side 2")

\* A report that shows a student on Side 2 of desk 4, the first desk of
\* the second column, who comes first in the list and has the last serial
\* number.
C16_Witness ==
  /\ Reported
  /\ Len(report) = 1
  /\ report[1].benchesPerColumn = <<3, 2>>
  /\ Len(assignments) = 3
  /\ report[1].columns[4][1] = << assignments[1] >>
  /\ assignments[1].serialNumber = 3

\* ------------------------------------------------------------------ C17
Bucket(name, key) ==
  { i \in InRoom(assignments, name) : GroupKey(assignments[i]) = key }

Suffix(roll) == extractRollNumberNumeric(roll)

\* C17: the summary of a room has one row per (paper, branch,
\* semesterSection) of its assignments; the row counts the bucket, from and
\* to are roll numbers of the bucket of least and of greatest numeric
\* suffix, the rows rise by label, the totals add up to the room's count.
C17_SummaryRows ==
  Reported =>
    \A k \in 1..Len(report) :
      LET r == report[k]
          name == r.classroom.roomName
          here == InRoom(assignments, name)
          keys == { GroupKey(assignments[i]) : i \in here }
          rowOf(key) == { x \in 1..Len(r.summary) :
                           \E i \in Bucket(name, key) :
                             r.summary[x].paper = Label(assignments[i]) }
      IN  /\ Len(r.summary) = Cardinality(keys)
          /\ \A key \in keys :
               /\ Cardinality(rowOf(key)) = 1
               /\ \A x \in rowOf(key) :
                    /\ r.summary[x].total = Cardinality(Bucket(name, key))
                    /\ \E i \in Bucket(name, key) :
                         /\ r.summary[x].from = assignments[i].rollNumber
                         /\ \A j \in Bucket(name, key) :
                              Suffix(assignments[i].rollNumber)
                                <= Suffix(assignments[j].rollNumber)
                    /\ \E i \in Bucket(name, key) :
                         /\ r.summary[x].to = assignments[i].rollNumber
                         /\ \A j \in Bucket(name, key) :
                              Suffix(assignments[i].rollNumber)
                                >= Suffix(assignments[j].rollNumber)
          /\ \A x, y \in 1..Len(r.summary) :
               x < y => labelCompare(r.summary[x].paper, r.summary[y].paper) < 0
          /\ SumFirst([x \in 1..Len(r.summary) |-> r.summary[x].total],
                      Len(r.summary)) = Cardinality(here)

\* A summary of two rows, the second one a bucket of two students with
\* from C-3-2 and to C-3-10, met first in serial order.
C17_Witness ==
  /\ Reported
  /\ Len(report) = 1
  /\ Len(report[1].summary) = 2
  /\ report[1].summary[1].total = 1
  /\ report[1].summary[2].total = 2
  /\ report[1].summary[2].from = ListedStudents[2].rollNumber
  /\ report[1].summary[2].to = ListedStudents[1].rollNumber
  /\ \E i \in 1..Len(assignments) :
       /\ assignments[i].serialNumber = 1
       /\ Label(assignments[i]) = report[1].summary[2].paper

\* ------------------------------------------------------------------ C18
Validated == pc = "validated"

\* The desks of the list with two occupants of one ConflictClass.
SharedClassDesks ==
  { d \in { << assignments[i].roomName, assignments[i].deskNumber >> :
             i \in 1..Len(assignments) } :
      \E i, j \in 1..Len(assignments) :
        /\ i < j
        /\ << assignments[i].roomName, assignments[i].deskNumber >> = d
        /\ << assignments[j].roomName, assignments[j].deskNumber >> = d
        /\ ConflictClass(StudentOf(assignments[i].rollNumber))
             = ConflictClass(StudentOf(assignments[j].rollNumber)) }

\* C18: the validator records one violation, and counts one
\* sameDeskViolation, for every desk whose two occupants share their
\* ConflictClass; isValid holds exactly when that count is 0, whatever
\* adjacentSamePaperCount is.
C18_ViolationPerSharedClassDesk ==
  Validated =>
    /\ validationResult.sameDeskViolations = Cardinality(SharedClassDesks)
    /\ Len(validationResult.violations) = Cardinality(SharedClassDesks)
    /\ \A d \in SharedClassDesks :
         Cardinality({ k \in 1..Len(validationResult.violations) :
                       validationResult.violations[k].deskKey = d }) = 1
    /\ validationResult.isValid <=> (validationResult.sameDeskViolations = 0)
    /\ validationResult.isValid <=> (SharedClassDesks = {})

\* A validated list with one desk of two students of one class, a student
\* of their paper and another semester on the next desk: one violation,
\* two advisory pairs.
C18_Witness ==
  /\ Validated
  /\ validationResult.sameDeskViolations = 1
  /\ validationResult.adjacentSamePaperCount = 2
  /\ ~validationResult.isValid

\* ------------------------------------------------------------------ C20
AlgoReturned == pc = "returned"

\* C20: whatever the shuffles of algorithmicSeating give, no desk holds two
\* students of one paper, no seat holds two students, no room holds more
\* students than its totalCapacity, and on return every student is in
\* exactly one of assignments and unassignedStudents.
C20_ShuffledSeatingIsSound ==
  /\ \A i, j \in 1..Len(assignments) :
       ( /\ i # j
         /\ assignments[i].roomName = assignments[j].roomName
         /\ assignments[i].deskNumber = assignments[j].deskNumber )
       => /\ assignments[i].paper # assignments[j].paper
          /\ assignments[i].side # assignments[j].side
  /\ \A c \in Range(classrooms) :
       Cardinality(InRoom(assignments, c.roomName)) <= c.totalCapacity
  /\ AlgoReturned =>
       \A st \in Range(students) :
         Cardinality({ i \in 1..Len(assignments) :
                       assignments[i].rollNumber = st.rollNumber })
         + Cardinality({ i \in 1..Len(unassignedStudents) :
                         unassignedStudents[i].rollNumber = st.rollNumber }) = 1

\* A run returned with capacity to spare and a student left unassigned:
\* the only free seats were beside a student of the same paper and another
\* semester.
C20_Witness ==
  /\ AlgoReturned
  /\ assignments # << >>
  /\ Len(unassignedStudents) = 1
  /\ \E i \in 1..Len(assignments) :
       /\ assignments[i].paper = unassignedStudents[1].paper
       /\ getClassId(StudentOf(assignments[i].rollNumber))
            # getClassId(unassignedStudents[1])
  /\ \E k \in 1..Len(seatTracker) : ~seatTracker[k].occupied

\* ------------------------------------------------------------------ C19
\* The page hands the allocator a new classroom list for the next call.
NewCall == pc = "done" /\ pc' = "call"

\* C19: no step of intelligentSeating, of validateSeatingArrangement or of
\* generatePrintData changes an input: the classrooms (with their
\* desksPerColumn) and the students stay as they are, and so does the list
\* of assignments handed to the validator or to the report generator.
C19_InputsUnchanged ==
  [][ NewCall
      \/ ( /\ classrooms' = classrooms
           /\ students' = students
           /\ (pc \in {"list", "done"} => assignments' = assignments) ) ]_vars

\* A report was generated from a list of two assignments of the room whose
\* serial numbers fall along the list: the report generator sorted them.
C19_Witness ==
  /\ pc = "reported"
  /\ Len(report) = 1
  /\ Len(assignments) = 2
  /\ assignments[1].roomName = assignments[2].roomName
  /\ assignments[1].serialNumber > assignments[2].serialNumber

\* ------------------------------------------------------------------ C24
\* C24: when a desk follows another desk of the same room and both papers
\* of the earlier desk's pair still had waiting students after that desk
\* was filled, the later desk has the same (Side 1 paper, Side 2 paper)
\* pair; the pair changes only after one of its queues has emptied.
C24_PairIsSticky ==
  (lastDesk.visited /\ lastDesk.prevBothWaiting) =>
    lastDesk.pair = lastDesk.prevPair

\* A second desk of a room was filled with the pair of the first desk, a
\* third paper waiting all the while.
C24_Witness ==
  /\ lastDesk.visited
  /\ lastDesk.prevBothWaiting
  /\ lastDesk.filled = 2
  /\ lastDesk.papersWaiting = 3

\* ------------------------------------------------------------------ C25
\* A step of the room loop: a room is left, entered, or the loop ends.
RoomLoopStep ==
  (pc = "rooms" \/ pc' = "rooms") /\ pc # "call" /\ pc' # "call"

RoomEntered == pc = "rooms" /\ pc' = "desks"

\* C25: between the last desk of a room and the first desk of the next the
\* rotation pointer and the queues stay as they are; entering a room sets
\* the serial counter to 1 and clears the locked pair.
C25_PointerSurvivesRoomChange ==
  [][ (RoomLoopStep => ( /\ paperIdx' = paperIdx
                         /\ byPaper' = byPaper
                         /\ paperOrder' = paperOrder ))
      /\ (RoomEntered => ( /\ serial' = 1
                           /\ p1' = Null
                           /\ p2' = Null )) ]_vars

\* The second room of a call was entered with the pointer away from 0 and
\* a locked pair left by the first room.
C25_Witness ==
  /\ pc = "desks"
  /\ roomIdx = 2
  /\ col = 0
  /\ row = 1
  /\ serial = 1
  /\ p1 = Null
  /\ paperIdx # 0
  /\ assignments # << >>

\* ------------------------------------------------------------------ C26
SideRank(sd) == IF sd = "Side 1" THEN 1 ELSE 2

\* C26: within a room, serialNumber(x) < serialNumber(y) exactly when x
\* sits on a lower desk than y, or on the same desk with x on Side 1 and y
\* on Side 2.
C26_SerialsFollowDesks ==
  \A i, j \in 1..Len(assignments) :
    (i # j /\ assignments[i].roomName = assignments[j].roomName) =>
      ( assignments[i].serialNumber < assignments[j].serialNumber
        <=> \/ assignments[i].deskNumber < assignments[j].deskNumber
            \/ /\ assignments[i].deskNumber = assignments[j].deskNumber
               /\ assignments[i].side = "Side 1"
               /\ assignments[j].side = "Side 2" )

\* A call returned with three students in one room: two on desk 1, one on
\* desk 2.
C26_Witness ==
  /\ Returned
  /\ \E i, j, k \in 1..Len(assignments) :
       /\ assignments[i].roomName = assignments[j].roomName
       /\ assignments[j].roomName = assignments[k].roomName
       /\ assignments[i].deskNumber = 1 /\ assignments[i].side = "Side 1"
       /\ assignments[j].deskNumber = 1 /\ assignments[j].side = "Side 2"
       /\ assignments[k].deskNumber = 2
       /\ assignments[k].serialNumber = 3

\* ------------------------------------------------------------------ C27
Printed == pc = "printed"

\* The filled cells of a report's grid, as (sub-column, row) positions.
FilledCells(r) ==
  { << j, x >> \in (1..Len(r.columns)) \X (1..r.maxRowsInColumn) :
      r.columns[j][x] # << >> }

\* C27: the report of an allocation shows every assignment of a room in
\* exactly one cell of the room's grid: the filled cells are as many as the
\* room's assignments and as the sum of the summary totals, and a room
\* with assignments has a report.
C27_ChartShowsEverySeat ==
  Printed =>
    \A c \in Range(classrooms) :
      LET here == InRoom(assignments, c.roomName)
      IN  /\ Cardinality(ReportOf(c)) = (IF here = {} THEN 0 ELSE 1)
          /\ \A k \in ReportOf(c) :
               /\ Cardinality(FilledCells(report[k])) = Cardinality(here)
               /\ SumFirst([x \in 1..Len(report[k].summary) |->
                              report[k].summary[x].total],
                           Len(report[k].summary)) = Cardinality(here)
               /\ \A i \in here :
                    Cardinality({ cell \in FilledCells(report[k]) :
                      report[k].columns[cell[1]][cell[2]][1].rollNumber
                        = assignments[i].rollNumber }) = 1

\* The reports of an allocation over two rooms, three students in the
\* room of capacity 3 whose second bench has one seat.
C27_Witness ==
  /\ Printed
  /\ Len(report) = 2
  /\ \E k \in 1..Len(report) :
       /\ report[k].classroom.totalCapacity = 3
       /\ Cardinality(FilledCells(report[k])) = 3

\* ------------------------------------------------------------------ C28
Occupied(name, desk, sd) ==
  \E i \in InRoom(assignments, name) :
    assignments[i].deskNumber = desk /\ assignments[i].side = sd

\* C28: a desk with an occupant on Side 2 has one on Side 1, and if desk
\* d > 1 of a room is occupied then desk d - 1 has an occupant on Side 1.
C28_NoGapsSideOneFirst ==
  Returned =>
    \A i \in 1..Len(assignments) :
      LET a == assignments[i]
      IN  /\ Occupied(a.roomName, a.deskNumber, "Side 1")
          /\ a.deskNumber > 1 => Occupied(a.roomName, a.deskNumber - 1, "Side 1")

\* A call returned with a room whose desk 1 holds two students and whose
\* desk 2 holds one, on Side 1.
C28_Witness ==
  /\ Returned
  /\ \E c \in Range(classrooms) :
       /\ Occupied(c.roomName, 1, "Side 2")
       /\ Occupied(c.roomName, 2, "Side 1")
       /\ ~Occupied(c.roomName, 2, "Side 2")

\* ------------------------------------------------------------------ C29
\* The geometry of a room as the specification states it.
Geometry(room) ==
  IF ListedRoom(room) THEN room.desksPerColumn
  ELSE [i \in 1..room.numberOfColumns |->
          LET b == Ceil2(room.totalCapacity)
          IN  IF i <= b % room.numberOfColumns
              THEN (b \div room.numberOfColumns) + 1
              ELSE b \div room.numberOfColumns]

\* C29: a result with unassigned students leaves no room short: each
\* classroom holds totalCapacity assignments or has an occupant on Side 1
\* of every desk of its geometry.
C29_UnassignedOnlyWhenRoomsExhausted ==
  (Returned /\ unassignedStudents # << >>) =>
    \A c \in Range(classrooms) :
      \/ Cardinality(InRoom(assignments, c.roomName)) = c.totalCapacity
      \/ \A d \in 1..SumFirst(Geometry(c), Len(Geometry(c))) :
           Occupied(c.roomName, d, "Side 1")

\* A call returned with a student unassigned, one room filled to its
\* capacity and another, below its capacity, with every desk taken on
\* Side 1.
C29_Witness ==
  /\ Returned
  /\ unassignedStudents # << >>
  /\ \E c, d \in Range(classrooms) :
       /\ Cardinality(InRoom(assignments, c.roomName)) = c.totalCapacity
       /\ Cardinality(InRoom(assignments, d.roomName)) < d.totalCapacity
       /\ InRoom(assignments, d.roomName) # {}

\* C30: from the empty list, whatever the student manager's handlers do, no
\* two listed students have the same rollNumber; an add that generates a
\* roll number already listed leaves the student of that roll number as it
\* was, at its place among the students listed before.
Distinct(list) ==
  \A i, j \in 1..Len(list) : list[i].rollNumber = list[j].rollNumber => i = j

WithRoll(list, rollNumber) == SelectSeq(list, LAMBDA s : s.rollNumber = rollNumber)

IsAdd == page'.op \in {"addManualStudent", "addRangeStudents"}

C30_RollNumbersStayDistinct ==
  [][ Distinct(pageStudents')
      /\ ( (IsAdd /\ page'.changes # page.changes) =>
             (\A r \in page'.rolls :
                HasRoll(pageStudents, r) =>
                  WithRoll(pageStudents', r) = WithRoll(pageStudents, r)) ) ]_vars

\* An add has met a roll number that was already listed, with another paper.
C30_Witness ==
  /\ pc = "roster"
  /\ page.op \in {"addManualStudent", "addRangeStudents"}
  /\ Len(pageStudents) = 2
  /\ \E r \in page.rolls : HasRoll(pageStudents, r)
  /\ lastToast \in {"Duplicate Student", "Students Added"}
  /\ page.changes = MaxChanges
  /\ \E i, j \in 1..2 : pageStudents[i].paper # pageStudents[j].paper
\* C21: once importSnapshot has loaded a snapshot, and until the user changes
\* classrooms or students, the allocation is the allocation of the snapshot.
C21_SnapshotAllocationKept ==
  page.snapshot # << >> => allocation = page.snapshot[1]

\* Nothing is pending on the page: no timer and no call.
Quiescent == handler = << >> /\ reenable = 0 /\ inflight = {}

\* C22: when classrooms and students have stopped changing and every call
\* has returned, the allocation is what the last runAllocation computed, the
\* one that ran on the current classrooms and students (no snapshot was
\* loaded and no call failed).
C22_SettledAllocationIsCurrent ==
  ( /\ Quiescent
    /\ page.loads = 0
    /\ page.failures = 0
    /\ page.expected # << >> ) => allocation = page.expected[1]

\* C23: a call that rejects leaves the allocation as it was, raises the
\* "Allocation Failed" notification and sets isLoading to false; a
\* runAllocation that ends sets isLoading to false, and isLoading is false
\* whenever no call is awaited.
CallFailed == page'.failures # page.failures

RunEnded == inflight' # inflight /\ inflight' \subseteq inflight

C23_FailureKeepsAllocation ==
  [][ (CallFailed => ( /\ allocation' = allocation
                       /\ lastToast' = "Allocation Failed"
                       /\ isLoading' = FALSE ))
      /\ (RunEnded => isLoading' = FALSE)
      /\ (inflight' = {} => isLoading' = FALSE) ]_vars

\* A call has failed while the page showed an allocation with a seated
\* student, and no call is awaited any more.
C23_Witness ==
  /\ page.failures > 0
  /\ lastToast = "Allocation Failed"
  /\ allocation.assignments # << >>
  /\ inflight = {}
  /\ ~isLoading
====
